---- MODULE Spec2Model ----
(***************************************************************************)
(* Model of the supervision-and-transport core of BlockAssassin:           *)
(*   - WorkerManager   (src/src/worker/manager.ts)                         *)
(*   - WebSocketClient (src/src/server/websocket.ts)                       *)
(* Every handler of the source is one action; handlers that call each      *)
(* other are operators over a record of the object's fields, composed the  *)
(* way the source composes the calls.                                      *)
(***************************************************************************)
EXTENDS Integers, Sequences, FiniteSets, TLC

\* ------------------------------------------------------------------------
\* Bounds of the model
\* ------------------------------------------------------------------------
MaxCount == 5        \* error counter value at which further errors are cut off
MaxTimers == 2       \* recovery timeouts pending at the same time
MaxConfigs == 2      \* length of a config list passed to initWorkers
FleetMaxCount == 1   \* as MaxCount, in the two-unit specification
FleetMaxTimers == 1  \* as MaxTimers, in the two-unit specification
MaxSockets == 2      \* WebSocket objects that are not yet closed
MaxAttempts == 1     \* reconnect counter value at which failures are cut off
MaxPending == 1      \* encryptions and decryptions in flight at a time
MaxLeaked == 1       \* heartbeat intervals that no field refers to any more
MaxObservers == 2    \* observers registered
RetryMaxAttempts == 12  \* as MaxAttempts, in the retry specification
MaxChars == 2        \* code units of a plaintext
MaxFiles == 2        \* files somebody else puts into the bots directory
MaxItems == 2        \* items of a botsInit payload
MaxJobs == 1         \* calls of handleBotsInit in progress at a time
MaxLoops == 2        \* agent loops, and startAgent calls awaiting, in one unit
MaxInbox == 2        \* messages a unit has been sent and not yet handled

\* ------------------------------------------------------------------------
\* WorkerManager: constants and value sets
\* ------------------------------------------------------------------------
maxRetries == 3

Names == {"a", "b"}
NoName == ""                 \* a config whose name is missing (falsy)

\* A Worker handle is identified by the name it was created for and by
\* whether terminate() has been called on it: the manager never holds two
\* live Workers of one name, and nothing in the code tells two destroyed
\* Workers of one name apart.
Live(name) == <<name, "live">>
Dead(name) == <<name, "dead">>
NoUnit == <<>>               \* Map.get(name) === undefined
NoCount == -1                \* errorCounts has no entry for the name

IDLE == "idle"
RUNNING == "running"
ERROR == "error"
TERMINATED == "terminated"
NoStatus == "none"           \* status has no entry for the name

INIT == "init"
START == "start"
STOP == "stop"
TASK == "task"
LOG == "log"
START_FAILED == "start_failed"
RESULT == "result"
SEND == "send"
\* tags a unit posts to the supervisor (thread.ts)
SignalTypes == {LOG, ERROR, START_FAILED, RESULT, SEND}

VARIABLES
    workers,       \* Map name -> Worker handle (NoUnit when absent)
    status,        \* Map name -> WorkerStatus (NoStatus when absent)
    errorCounts,   \* Map name -> number (NoCount when absent)
    timers,        \* pending recovery timeouts, oldest first; each holds the
                   \* Worker handle captured by its closure
    destroyed,     \* names of which some Worker has been terminated
    effects,       \* calls the last step made on its collaborators, in order:
                   \* <<"new", name>>, <<"terminate", handle>>,
                   \* <<"postMessage", handle, tag>>, <<"setTimeout", handle>>,
                   \* <<"sendBotMessage", name>>
    op,            \* the last step: <<operation, name, argument>>
    ret            \* what the last operation returned ("true","false","void")

wmVars == <<workers, status, errorCounts, timers, destroyed, effects, op, ret>>

\* the WebSocketClient's fields
VARIABLES
    state,              \* this.state
    socket,             \* this.socket: a socket id or NoSocket
    sockPhase,          \* readyState of each WebSocket object, with "aborted"
                        \* for one closed before it opened, "errored" for one
                        \* whose error event has been dispatched and "gone"
                        \* for one that is closed or was never created
    authToken,          \* this.authToken
    clientId,           \* this.clientId
    reconnectAttempts,  \* this.reconnectAttempts
    reconnectTimeout,   \* this.reconnectTimeout: "null", or the timeout it
                        \* names is "pending" or has "fired"
    pingInterval,       \* this.pingInterval !== null (the interval is live)
    leaked,             \* live intervals this.pingInterval no longer names
    silence,            \* Date.now() - this.lastPingTime, as an index of Silences
    keysLoaded,         \* the encryptor's RSA keys have been imported
    pending,            \* encryptions and decryptions in flight, per kind
    connectionHandlers, \* this.connectionHandlers: each handler is its id
                        \* and whether it throws when it is called
    messageHandlers,    \* this.messageHandlers
    errorHandlers,      \* this.errorHandlers
    closeHandlers,      \* this.closeHandlers
    calls,              \* calls the last step made on its collaborators,
                        \* and what connect() returned in it
    handshake           \* steps of connect / open / welcome done in a row
                        \* since a connect() from Disconnected (0 if none)

wsVars == <<state, socket, sockPhase, authToken, clientId, reconnectAttempts,
            reconnectTimeout, pingInterval, leaked, silence, keysLoaded,
            pending, connectionHandlers, messageHandlers, errorHandlers,
            closeHandlers, calls, handshake>>

\* ClientMessageEncryptor (utils/crypto.ts)
VARIABLES
    encryptor,          \* its fields: algorithm, keyManager, serverPublicKey,
                        \* clientPrivateKey
    plain,              \* the string last given to encrypt()
    sealed,             \* what encrypt() returned for it
    opened,             \* what decrypt() returned for that
    inbound,            \* the inbound frame last given to decrypt()
    answer              \* what decrypt() returned for it, and the calls
                        \* decryptHybrid made on the way

cryptoVars == <<encryptor, plain, sealed, opened, inbound, answer>>

\* Config and GameService (config.ts)
VARIABLES
    botFiles,           \* the bots directory: what each file name holds
    bots,               \* Config.bots
    jobs                \* the calls of handleBotsInit and where each stands

fsVars == <<botFiles, bots, jobs>>

\* the Worker thread of one unit (worker/thread.ts)
VARIABLES
    agent,              \* agent !== null
    isRunning,          \* the flag the agent loop tests
    loops,              \* calls of runAgentLoop that have not returned
    starts,             \* calls of startAgent that await agent.start()
    posted,             \* what the last step posted to the supervisor
    inbox               \* message events of the thread not yet dispatched

threadVars == <<agent, isRunning, loops, starts, posted, inbox>>

\* the manager's fields as one record, so that handlers compose
WM ==
    [workers |-> workers, status |-> status, errorCounts |-> errorCounts,
     timers |-> timers, destroyed |-> destroyed, effects |-> <<>>,
     ret |-> "void"]

WMSet(S) ==
    /\ workers' = S.workers
    /\ status' = S.status
    /\ errorCounts' = S.errorCounts
    /\ timers' = S.timers
    /\ destroyed' = S.destroyed
    /\ effects' = S.effects
    /\ ret' = S.ret

Commit(S) == WMSet(S) /\ UNCHANGED <<wsVars, cryptoVars, fsVars, threadVars>>

\* this.errorCounts.get(name) || 0
ErrCount(S, name) ==
    IF S.errorCounts[name] = NoCount THEN 0 ELSE S.errorCounts[name]

Effect(S, e) == [S EXCEPT !.effects = Append(@, e)]

postMessage(S, worker, tag) == Effect(S, <<"postMessage", worker, tag>>)

\* worker.terminate(): closures that captured the Worker now hold a dead one
terminate(S, name) ==
    [Effect(S, <<"terminate", Live(name)>>) EXCEPT
        !.destroyed = @ \cup {name},
        !.timers = [i \in DOMAIN S.timers |->
                      IF S.timers[i] = Live(name) THEN Dead(name) ELSE S.timers[i]]]

\* ------------------------------------------------------------------------
\* WorkerManager: methods
\* ------------------------------------------------------------------------
\* Worker.terminate() does not throw, so the catch branch is never taken
terminateWorker(S, name) ==
    IF S.workers[name] # NoUnit
    THEN [terminate(S, name) EXCEPT
             !.workers[name] = NoUnit,
             !.status[name] = TERMINATED,
             !.errorCounts[name] = NoCount,
             !.ret = "true"]
    ELSE [S EXCEPT !.ret = "false"]

RECURSIVE terminateEach(_, _)
terminateEach(S, names) ==
    IF names = {}
    THEN S
    ELSE LET name == CHOOSE n \in names : TRUE
         IN  terminateEach(terminateWorker(S, name), names \ {name})

\* for (const name of this.workers.keys()) this.terminateWorker(name)
terminateAllWorkers(S) ==
    [terminateEach(S, {n \in Names : S.workers[n] # NoUnit}) EXCEPT !.ret = "void"]

\* a catch branch that takes the failure for a runtime error
createWorker_failureCounted(S, name, allocOk) ==
    IF allocOk
    THEN postMessage([Effect(S, <<"new", name>>) EXCEPT
                         !.workers[name] = Live(name),
                         !.status[name] = IDLE],
                     Live(name), INIT)
    ELSE [S EXCEPT !.status[name] = ERROR,
                   !.errorCounts[name] = ErrCount(S, name) + 1]

\* allocOk = FALSE: `new Worker(...)` throws and the catch branch runs
createWorker(S, name, allocOk) ==
    IF allocOk
    THEN postMessage([Effect(S, <<"new", name>>) EXCEPT
                         !.workers[name] = Live(name),
                         !.status[name] = IDLE],
                     Live(name), INIT)
    ELSE [S EXCEPT !.status[name] = ERROR]

initWorker(S, name, allocOk) ==
    IF name = NoName
    THEN [S EXCEPT !.ret = "false"]
    ELSE LET S1 == IF S.workers[name] # NoUnit THEN terminateWorker(S, name) ELSE S
             S2 == [S1 EXCEPT !.errorCounts[name] = 0]
         IN  [createWorker(S2, name, allocOk) EXCEPT !.ret = "true"]

RECURSIVE initEach(_, _, _)
initEach(S, configs, allocOks) ==
    IF configs = <<>>
    THEN S
    ELSE initEach(initWorker(S, Head(configs), Head(allocOks)),
                  Tail(configs), Tail(allocOks))

initWorkers_noTerminate(S, configs, allocOks) ==
    [initEach(S, configs, allocOks) EXCEPT !.ret = "void"]

initWorkers(S, configs, allocOks) ==
    [initEach(terminateAllWorkers(S), configs, allocOks) EXCEPT !.ret = "void"]

startWorker_anyStatus(S, name) ==
    LET worker == S.workers[name] IN
    IF worker # NoUnit
    THEN [postMessage(S, worker, START) EXCEPT
             !.status[name] = RUNNING,
             !.ret = "true"]
    ELSE [S EXCEPT !.ret = "false"]

startWorker(S, name) ==
    LET worker == S.workers[name]
        st == S.status[name]
    IN  IF worker # NoUnit /\ (st = IDLE \/ st = ERROR)
        THEN [postMessage(S, worker, START) EXCEPT
                 !.status[name] = RUNNING,
                 !.ret = "true"]
        ELSE [S EXCEPT !.ret = "false"]

stopWorker_anyStatus(S, name) ==
    LET worker == S.workers[name] IN
    IF worker # NoUnit
    THEN [postMessage(S, worker, STOP) EXCEPT
             !.status[name] = IDLE,
             !.ret = "true"]
    ELSE [S EXCEPT !.ret = "false"]

stopWorker(S, name) ==
    LET worker == S.workers[name] IN
    IF worker # NoUnit /\ (S.status[name] = RUNNING \/ S.status[name] = ERROR)
    THEN [postMessage(S, worker, STOP) EXCEPT
             !.status[name] = IDLE,
             !.ret = "true"]
    ELSE [S EXCEPT !.ret = "false"]

restartWorker(S, name, hasConfig, allocOk) ==
    LET S1 == terminateWorker(S, name) IN
    IF S1.ret = "true"
    THEN LET S2 == [S1 EXCEPT !.errorCounts[name] = 0] IN
         IF hasConfig
         THEN startWorker(createWorker(S2, name, allocOk), name)
         ELSE [S2 EXCEPT !.ret = "false"]
    ELSE [S1 EXCEPT !.ret = "false"]

sendTask(S, name) ==
    LET worker == S.workers[name] IN
    IF worker # NoUnit /\ S.status[name] = RUNNING
    THEN [postMessage(S, worker, TASK) EXCEPT !.ret = "true"]
    ELSE [S EXCEPT !.ret = "false"]

\* setTimeout(..., restartTimeout): the closure captures name and worker
setTimeout(S, worker) ==
    [Effect(S, <<"setTimeout", worker>>) EXCEPT !.timers = Append(@, worker)]

attemptWorkerRecovery(S, name) ==
    LET errorCount == ErrCount(S, name)
        worker == S.workers[name]
    IN  IF worker = NoUnit
        THEN S
        ELSE IF errorCount <= maxRetries
             THEN setTimeout(S, worker)
             ELSE S

handleWorkerError_whenRunning(S, name) ==
    IF S.status[name] = RUNNING
    THEN attemptWorkerRecovery(
             [S EXCEPT !.status[name] = ERROR,
                       !.errorCounts[name] = ErrCount(S, name) + 1],
             name)
    ELSE S

handleWorkerError(S, name) ==
    LET S1 == [S EXCEPT !.status[name] = ERROR,
                        !.errorCounts[name] = ErrCount(S, name) + 1]
    IN  attemptWorkerRecovery(S1, name)

\* the callback without its test of the status
recoveryTimeout_unguarded(S, name, worker) ==
    startWorker([postMessage(S, worker, STOP) EXCEPT !.status[name] = IDLE],
                name)

\* the callback given to setTimeout in attemptWorkerRecovery; worker is the
\* handle its closure captured
recoveryTimeout(S, name, worker) ==
    IF S.status[name] = ERROR
    THEN startWorker([postMessage(S, worker, STOP) EXCEPT !.status[name] = IDLE],
                     name)
    ELSE S

handleWorkerMessage_resultWhenRunning(S, name, type) ==
    CASE type = ERROR -> handleWorkerError_whenRunning(S, name)
      [] type = START_FAILED -> terminateWorker(S, name)
      [] type = RESULT ->
            IF S.status[name] = RUNNING
            THEN [S EXCEPT !.errorCounts[name] = 0] ELSE S
      [] type = SEND -> Effect(S, <<"sendBotMessage", name>>)
      [] OTHER -> S

handleWorkerMessage_startFailedRecovers(S, name, type) ==
    CASE type = ERROR -> handleWorkerError_whenRunning(S, name)
      [] type = START_FAILED -> handleWorkerError(S, name)
      [] type = RESULT -> [S EXCEPT !.errorCounts[name] = 0]
      [] type = SEND -> Effect(S, <<"sendBotMessage", name>>)
      [] OTHER -> S

handleWorkerMessage(S, name, type) ==
    CASE type = ERROR ->
            IF S.status[name] = RUNNING
            THEN attemptWorkerRecovery(
                     [S EXCEPT !.status[name] = ERROR,
                               !.errorCounts[name] = ErrCount(S, name) + 1],
                     name)
            ELSE S
      [] type = START_FAILED -> terminateWorker(S, name)
      [] type = RESULT -> [S EXCEPT !.errorCounts[name] = 0]
      [] type = SEND -> Effect(S, <<"sendBotMessage", name>>)
      [] OTHER -> S      \* LOG and unknown tags are only logged

\* ------------------------------------------------------------------------
\* WorkerManager: state machine
\* ------------------------------------------------------------------------
WMInit ==
    /\ workers = [n \in Names |-> NoUnit]
    /\ status = [n \in Names |-> NoStatus]
    /\ errorCounts = [n \in Names |-> NoCount]
    /\ timers = <<>>
    /\ destroyed = {}
    /\ effects = <<>>
    /\ op = <<"new", NoName, NoName>>
    /\ ret = "void"

\* what a specification lets the environment do: the names that appear in
\* configs, and where the error counter and the pending timeouts are cut off
UnitScope == [names |-> {"a"}, maxCount |-> MaxCount, maxTimers |-> MaxTimers]
FleetScope == [names |-> Names, maxCount |-> FleetMaxCount,
               maxTimers |-> FleetMaxTimers]

\* config lists: names may repeat and may be missing
ConfigLists(sc) ==
    UNION {[1..k -> sc.names \cup {NoName}] : k \in 0..MaxConfigs}

\* configs as the set of names it carries
ConfigNames(configs) == {configs[i] : i \in DOMAIN configs} \ {NoName}

InitWorkers(sc) ==
    \E configs \in ConfigLists(sc) :
      \E allocOks \in [DOMAIN configs -> BOOLEAN] :
        /\ \A i \in DOMAIN configs : configs[i] = NoName => allocOks[i]
        /\ Commit(initWorkers(WM, configs, allocOks))
        /\ op' = <<"initWorkers", configs, allocOks>>

InitWorker(sc) ==
    \E name \in sc.names \cup {NoName}, allocOk \in BOOLEAN :
        /\ name = NoName => allocOk
        /\ Commit(initWorker(WM, name, allocOk))
        /\ op' = <<"initWorker", name, allocOk>>

StartWorker ==
    \E name \in Names :
        /\ Commit(startWorker(WM, name))
        /\ op' = <<"startWorker", name, NoName>>

StopWorker ==
    \E name \in Names :
        /\ Commit(stopWorker(WM, name))
        /\ op' = <<"stopWorker", name, NoName>>

TerminateWorker ==
    \E name \in Names :
        /\ Commit(terminateWorker(WM, name))
        /\ op' = <<"terminateWorker", name, NoName>>

RestartWorker ==
    \E name \in Names, hasConfig \in BOOLEAN, allocOk \in BOOLEAN :
        /\ (~hasConfig \/ workers[name] = NoUnit) => allocOk
        /\ Commit(restartWorker(WM, name, hasConfig, allocOk))
        /\ op' = <<"restartWorker", name, hasConfig>>

SendTask ==
    \E name \in Names :
        /\ Commit(sendTask(WM, name))
        /\ op' = <<"sendTask", name, NoName>>

\* the Workers whose events can still arrive: the tracked one, and destroyed
\* ones (the runtime may deliver an event queued before terminate())
Sources(name) ==
    (IF workers[name] # NoUnit THEN {Live(name)} ELSE {})
        \cup (IF name \in destroyed THEN {Dead(name)} ELSE {})

CanCount(sc, name) ==
    /\ ErrCount(WM, name) < sc.maxCount
    /\ Len(timers) < sc.maxTimers

\* a message event of a Worker: the listener installed by createWorker calls
\* handleWorkerMessage with the name the Worker was created for (a Send
\* signal reaches the transport as well: WorkerSend)
WorkerMessage(sc) ==
    \E name \in Names, type \in SignalTypes \ {SEND} :
      \E worker \in Sources(name) :
        /\ type = ERROR => CanCount(sc, name)
        /\ Commit([handleWorkerMessage(WM, name, type) EXCEPT !.ret = "void"])
        /\ op' = <<"message", name, <<worker, type>> >>

\* an error event of a Worker
WorkerErrorEvent(sc) ==
    \E name \in Names :
      \E worker \in Sources(name) :
        /\ CanCount(sc, name)
        /\ Commit(handleWorkerError(WM, name))
        /\ op' = <<"errorEvent", name, worker>>

\* the oldest pending recovery timeout fires (all have the same delay)
RecoveryTimeout ==
    /\ timers # <<>>
    /\ LET worker == Head(timers)
           name == worker[1]
       IN  /\ Commit([recoveryTimeout([WM EXCEPT !.timers = Tail(@)], name, worker)
                       EXCEPT !.ret = "void"])
           /\ op' = <<"recoveryTimeout", name, worker>>

WMNext(sc) ==
    \/ InitWorkers(sc)
    \/ InitWorker(sc)
    \/ StartWorker
    \/ StopWorker
    \/ TerminateWorker
    \/ RestartWorker
    \/ SendTask
    \/ WorkerMessage(sc)
    \/ WorkerErrorEvent(sc)
    \/ RecoveryTimeout

\* ------------------------------------------------------------------------
\* WebSocketClient: constants and value sets
\* ------------------------------------------------------------------------
maxReconnectAttempts == 10

DISCONNECTED == "disconnected"
CONNECTING == "connecting"
CONNECTED == "connected"
AUTHENTICATING == "authenticating"
AUTHENTICATED == "authenticated"
RECONNECTING == "reconnecting"
\* ConnectionState.ERROR is "error", the same string as WorkerStatus.ERROR

NORMAL_CLOSURE == 1000
SERVER_SHUTDOWN == 1001
INTERNAL_ERROR == 1011
MAX_CONNECTIONS_REACHED == 1013
AUTH_ERROR == 4000
CONNECTION_TIMEOUT == 4001
DUPLICATE_CONNECTION == 4002
CloseCodes == {NORMAL_CLOSURE, SERVER_SHUTDOWN, INTERNAL_ERROR,
               MAX_CONNECTIONS_REACHED, AUTH_ERROR, CONNECTION_TIMEOUT,
               DUPLICATE_CONNECTION}

pingIntervalMs == 30000
pingTimeoutMs == 120000

SockIds == 1..MaxSockets
NoSocket == 0                \* this.socket === null
NoToken == "null"            \* this.authToken === null
NoClientId == "null"         \* this.clientId === null

\* values of Math.random() * 1000, which is below 1000
Jitters == {0, 500, 999}

\* what a decrypted inbound frame parses to; "garbage" fails to decrypt or
\* to parse
Frames == {"welcome", "ping", "pong", "botsInit", "garbage"}
\* moments at which the time since the last inbound frame is looked at
Silences == <<0, 120000, 121000>>

PendingKinds ==
    {"auth", "welcome", "dataPing", "dataMessage", "ping", "pong", "relay"}

WS ==
    [state |-> state, socket |-> socket, sockPhase |-> sockPhase,
     authToken |-> authToken, clientId |-> clientId,
     reconnectAttempts |-> reconnectAttempts,
     reconnectTimeout |-> reconnectTimeout, pingInterval |-> pingInterval,
     leaked |-> leaked, silence |-> silence, keysLoaded |-> keysLoaded,
     pending |-> pending, connectionHandlers |-> connectionHandlers,
     messageHandlers |-> messageHandlers, errorHandlers |-> errorHandlers,
     closeHandlers |-> closeHandlers,
     calls |-> <<>>,
     jitter |-> 0]      \* what Math.random() * 1000 gives in this step

WSSet(C) ==
    /\ state' = C.state
    /\ socket' = C.socket
    /\ sockPhase' = C.sockPhase
    /\ authToken' = C.authToken
    /\ clientId' = C.clientId
    /\ reconnectAttempts' = C.reconnectAttempts
    /\ reconnectTimeout' = C.reconnectTimeout
    /\ pingInterval' = C.pingInterval
    /\ leaked' = C.leaked
    /\ silence' = C.silence
    /\ keysLoaded' = C.keysLoaded
    /\ pending' = C.pending
    /\ connectionHandlers' = C.connectionHandlers
    /\ messageHandlers' = C.messageHandlers
    /\ errorHandlers' = C.errorHandlers
    /\ closeHandlers' = C.closeHandlers
    /\ calls' = C.calls

WSCommit(C) ==
    WSSet(C) /\ UNCHANGED <<wmVars, cryptoVars, fsVars, threadVars>>

Call(C, e) == [C EXCEPT !.calls = Append(@, e)]
Return(C, value) == Call(C, <<"return", value>>)

\* live heartbeat intervals
Heartbeats(C) == (IF C.pingInterval THEN 1 ELSE 0) + C.leaked

\* ------------------------------------------------------------------------
\* WebSocketClient: methods
\* ------------------------------------------------------------------------
clearTimers(C) ==
    LET C1 == IF C.pingInterval
              THEN [Call(C, <<"clearInterval">>) EXCEPT !.pingInterval = FALSE]
              ELSE C
    IN  IF C1.reconnectTimeout # "null"
        THEN [Call(C1, <<"clearTimeout">>) EXCEPT !.reconnectTimeout = "null"]
        ELSE C1

Throws(handler) == handler[2]

\* the loop of a trigger method from its i-th handler on; each call is
\* made inside try/catch (guarded), so that a handler that throws is
\* logged and the loop goes on; without the try/catch the exception would
\* end the loop
RECURSIVE invokeFrom(_, _, _, _, _)
invokeFrom(C, kind, handlers, i, guarded) ==
    IF i > Len(handlers)
    THEN C
    ELSE LET C1 == Call(C, <<"handler", kind, handlers[i]>>) IN
         IF ~Throws(handlers[i])
         THEN invokeFrom(C1, kind, handlers, i + 1, guarded)
         ELSE IF guarded
         THEN invokeFrom(Call(C1, <<"caught", kind, handlers[i]>>),
                         kind, handlers, i + 1, guarded)
         ELSE C1

\* a trigger loop without its try/catch
invokeEach_stopsAtThrow(C, kind, handlers, i) ==
    invokeFrom(C, kind, handlers, i, FALSE)

\* for (const handler of handlers) { try { handler(...) } catch { log } }
invokeEach(C, kind, handlers, i) ==
    invokeFrom(C, kind, handlers, i, TRUE)

triggerMessageHandlers(C) ==
    invokeEach(Call(C, <<"invoke", "message">>), "message",
               C.messageHandlers, 1)

triggerConnectionHandlers(C) ==
    invokeEach(C, "connect", C.connectionHandlers, 1)

triggerErrorHandlers(C) ==
    invokeEach(Call(C, <<"invoke", "error">>), "error", C.errorHandlers, 1)

triggerCloseHandlers(C, code) ==
    invokeEach(Call(C, <<"invoke", "close", code>>), "close",
               C.closeHandlers, 1)

\* the lowest id of a WebSocket object that is closed
FreeSocks(C) == {x \in SockIds : C.sockPhase[x] = "gone"}
NewSock(C) == CHOOSE x \in FreeSocks(C) : \A y \in FreeSocks(C) : x <= y

\* connect() that also refuses to run while Authenticated
connect_rejectsAuthenticated(C, newOk) ==
    IF C.state \in {CONNECTED, CONNECTING, AUTHENTICATING, AUTHENTICATED}
    THEN Return(C, FALSE)
    ELSE IF C.authToken = NoToken
    THEN Return(C, FALSE)
    ELSE IF newOk
    THEN LET x == NewSock(C) IN
         Return([Call(C, <<"new WebSocket", x>>) EXCEPT
                    !.state = CONNECTING,
                    !.socket = x,
                    !.sockPhase[x] = "connecting"], TRUE)
    ELSE Return(triggerErrorHandlers([C EXCEPT !.state = ERROR]), FALSE)

\* newOk = FALSE: `new WebSocket(...)` throws and the catch branch runs
connect(C, newOk) ==
    IF C.state \in {CONNECTED, CONNECTING, AUTHENTICATING}
    THEN Return(C, FALSE)
    ELSE IF C.authToken = NoToken
    THEN Return(C, FALSE)
    ELSE IF newOk
    THEN LET x == NewSock(C) IN
         Return([Call(C, <<"new WebSocket", x>>) EXCEPT
                    !.state = CONNECTING,
                    !.socket = x,
                    !.sockPhase[x] = "connecting"], TRUE)
    ELSE Return(triggerErrorHandlers([C EXCEPT !.state = ERROR]), FALSE)

\* socket.close(): an open socket starts the closing handshake, one that
\* is still connecting aborts its request (ws 8: error event, then close)
closeSocket(C, x) ==
    [Call(C, <<"close", x, NORMAL_CLOSURE>>) EXCEPT
        !.sockPhase[x] = CASE @ = "connecting" -> "aborted"
                           [] @ = "open" -> "closing"
                           [] OTHER -> @]

disconnect(C) ==
    IF C.state = DISCONNECTED
    THEN C
    ELSE LET C1 == clearTimers(C)
             C2 == IF C1.socket # NoSocket
                   THEN [closeSocket(C1, C1.socket) EXCEPT !.socket = NoSocket]
                   ELSE C1
         IN  [C2 EXCEPT !.state = DISCONNECTED]

Min(a, b) == IF a < b THEN a ELSE b

\* the backoff without its cap
delay_uncapped(n, jitter) == 1000 * 2^n + jitter

\* Math.min(1000 * Math.pow(2, n) + Math.random() * 1000, 30000)
delay(n, jitter) == Min(1000 * 2^n + jitter, 30000)

\* reconnect() that gives up one attempt early
reconnect_givesUpEarly(C) ==
    IF C.state = RECONNECTING
    THEN C
    ELSE LET C1 == [clearTimers(C) EXCEPT
                       !.state = RECONNECTING,
                       !.reconnectAttempts = @ + 1]
         IN  IF C1.reconnectAttempts >= maxReconnectAttempts
             THEN [C1 EXCEPT !.state = DISCONNECTED]
             ELSE [Call(C1, <<"setTimeout",
                              delay(C1.reconnectAttempts, C1.jitter)>>) EXCEPT
                      !.reconnectTimeout = "pending"]

reconnect(C) ==
    IF C.state = RECONNECTING
    THEN C
    ELSE LET C1 == [clearTimers(C) EXCEPT
                       !.state = RECONNECTING,
                       !.reconnectAttempts = @ + 1]
         IN  IF C1.reconnectAttempts > maxReconnectAttempts
             THEN [C1 EXCEPT !.state = DISCONNECTED]
             ELSE [Call(C1, <<"setTimeout",
                              delay(C1.reconnectAttempts, C1.jitter)>>) EXCEPT
                      !.reconnectTimeout = "pending"]

\* sendRaw up to its await: it throws at once without a socket or without
\* the server public key, and otherwise the encryption is in flight
CanEncrypt(C) == C.socket # NoSocket /\ C.keysLoaded

\* sendRaw after its await: socket.send throws on null and on a socket that
\* is still connecting (ws 8), and drops the frame on one that is closing
CanWrite(C) == C.socket # NoSocket /\ C.sockPhase[C.socket] # "connecting"
\* (disconnect() sets this.socket to null, so it never names an aborted one)

write(C, type) ==
    IF C.sockPhase[C.socket] = "open"
    THEN Call(C, <<"send", C.socket, type>>)
    ELSE C

InFlight(C) ==
    C.pending["auth"] + C.pending["welcome"] + C.pending["dataPing"]
    + C.pending["dataMessage"] + C.pending["ping"] + C.pending["pong"]
    + C.pending["relay"]
Await(C, kind) == [C EXCEPT !.pending[kind] = @ + 1]
Resume(C, kind) == [C EXCEPT !.pending[kind] = @ - 1]

authenticate(C) ==
    IF C.state # AUTHENTICATING \/ C.socket = NoSocket \/ C.authToken = NoToken
    THEN C
    ELSE IF CanEncrypt(C)
    THEN Await(C, "auth")
    ELSE disconnect(C)

\* an open handler with a state of its own for the open socket
handleOpen_connected(C) ==
    [C EXCEPT !.state = CONNECTED, !.reconnectAttempts = 0]

handleOpen(C) ==
    authenticate([C EXCEPT !.state = AUTHENTICATING, !.reconnectAttempts = 0])

\* authenticate after `await this.send(authMessage)`
authenticateDone(C) ==
    IF CanWrite(C) THEN write(C, "auth") ELSE disconnect(C)

startPingInterval(C) ==
    [Call(C, <<"setInterval">>) EXCEPT
        !.leaked = IF C.pingInterval THEN @ + 1 ELSE @,
        !.pingInterval = TRUE]

\* a handleAuthMessage that takes whatever arrives for the welcome
handleMessage_anyFrame(C, frame) ==
    LET C1 == Call([C EXCEPT !.silence = 1], <<"received", frame>>) IN
    IF ~C1.keysLoaded
    THEN C1
    ELSE IF C1.state = AUTHENTICATING
    THEN Await(C1, "welcome")
    ELSE IF C1.state = AUTHENTICATED
    THEN CASE frame = "ping" -> Await(C1, "dataPing")
           [] frame \in {"pong", "garbage"} -> C1
           [] OTHER -> Await(C1, "dataMessage")
    ELSE C1

\* handleMessage, with handleAuthMessage / handleDataMessage up to their await
handleMessage(C, frame) ==
    LET C1 == Call([C EXCEPT !.silence = 1], <<"received", frame>>) IN
    IF ~C1.keysLoaded
    THEN C1
    ELSE IF C1.state = AUTHENTICATING
    THEN IF frame = "welcome" THEN Await(C1, "welcome") ELSE C1
    ELSE IF C1.state = AUTHENTICATED
    THEN CASE frame = "ping" -> Await(C1, "dataPing")
           [] frame \in {"pong", "garbage"} -> C1
           [] OTHER -> Await(C1, "dataMessage")
    ELSE C1

\* handleAuthMessage after its await, for a welcome frame
handleAuthMessageDone(C) ==
    triggerConnectionHandlers(
        startPingInterval([C EXCEPT !.state = AUTHENTICATED,
                                    !.clientId = "abc"]))

\* this.send(...) whose failure leads to reconnect(): ping and pong
sendOrReconnect(C, kind) ==
    IF CanEncrypt(C) THEN Await(C, kind) ELSE reconnect(C)

sendDone(C, kind) ==
    IF CanWrite(C) THEN write(C, kind) ELSE reconnect(C)

\* a handleDataMessage that hands the ping to the observers as well
handleDataMessageDone_pingObserved(C, kind) ==
    IF kind = "dataPing"
    THEN sendOrReconnect(triggerMessageHandlers(C), "pong")
    ELSE triggerMessageHandlers(C)

\* handleDataMessage after its await
handleDataMessageDone(C, kind) ==
    IF kind = "dataPing"
    THEN sendOrReconnect(C, "pong")          \* handlePing
    ELSE triggerMessageHandlers(C)

\* the callback given to setInterval in startPingInterval
pingTick(C) ==
    IF Silences[C.silence] > pingTimeoutMs
    THEN reconnect(C)
    ELSE sendOrReconnect(C, "ping")

handleError(C) ==
    reconnect(triggerErrorHandlers([C EXCEPT !.state = ERROR]))

\* handleClose that treats only the normal closure as final
handleClose_onlyNormalFinal(C, code) ==
    LET C1 == triggerCloseHandlers(
                  [clearTimers(C) EXCEPT !.state = DISCONNECTED], code)
    IN  IF code = NORMAL_CLOSURE
        THEN C1
        ELSE reconnect(C1)

handleClose(C, code) ==
    LET C1 == triggerCloseHandlers(
                  [clearTimers(C) EXCEPT !.state = DISCONNECTED], code)
    IN  IF code = NORMAL_CLOSURE \/ code = AUTH_ERROR
        THEN C1
        ELSE reconnect(C1)

\* ------------------------------------------------------------------------
\* WebSocketClient: state machine
\* ------------------------------------------------------------------------
WSInit ==
    /\ state = DISCONNECTED
    /\ socket = NoSocket
    /\ sockPhase = [x \in SockIds |-> "gone"]
    /\ authToken = NoToken
    /\ clientId = NoClientId
    /\ reconnectAttempts = 0
    /\ reconnectTimeout = "null"
    /\ pingInterval = FALSE
    /\ leaked = 0
    /\ silence = Len(Silences)      \* lastPingTime starts at 0
    /\ keysLoaded = FALSE
    /\ pending = [k \in PendingKinds |-> 0]
    /\ connectionHandlers = <<>>
    /\ messageHandlers = <<>>
    /\ errorHandlers = <<>>
    /\ closeHandlers = <<>>
    /\ calls = <<>>
    /\ handshake = 0

\* where the model cuts the program's unbounded resources off
Bounded(C) == InFlight(C) <= MaxPending /\ C.leaked <= MaxLeaked

\* the step neither belongs to the connect / open / welcome sequence nor
\* interrupts it; the sequence is over one step after its end
Stay == IF handshake = 4 THEN 0 ELSE handshake

\* the step leaves the connect / open / welcome sequence
Leave == handshake' = 0

SetAuthToken ==
    /\ WSCommit([WS EXCEPT !.authToken = "T1"])
    /\ Leave

OnConnect ==
    /\ Len(connectionHandlers) < MaxObservers
    /\ authToken = NoToken
    /\ WSCommit([WS EXCEPT
                    !.connectionHandlers = Append(@, <<Len(@) + 1, FALSE>>)])
    /\ Leave

HandlerKinds == {"message", "connect", "error", "close"}

HandlersOf(C, kind) ==
    CASE kind = "message" -> C.messageHandlers
      [] kind = "connect" -> C.connectionHandlers
      [] kind = "error" -> C.errorHandlers
      [] kind = "close" -> C.closeHandlers

\* onMessage / onConnect / onError / onClose
on(C, kind, handler) ==
    CASE kind = "message" -> [C EXCEPT !.messageHandlers = Append(@, handler)]
      [] kind = "connect" -> [C EXCEPT !.connectionHandlers = Append(@, handler)]
      [] kind = "error" -> [C EXCEPT !.errorHandlers = Append(@, handler)]
      [] kind = "close" -> [C EXCEPT !.closeHandlers = Append(@, handler)]

Registered(C) ==
    Len(C.messageHandlers) + Len(C.connectionHandlers)
    + Len(C.errorHandlers) + Len(C.closeHandlers)

\* an observer of any kind, one that throws or one that returns, is
\* registered before the client is started
Subscribe ==
    \E kind \in HandlerKinds, throws \in BOOLEAN :
        /\ Registered(WS) < MaxObservers
        /\ authToken = NoToken
        /\ WSCommit(on(WS, kind, <<Len(HandlersOf(WS, kind)) + 1, throws>>))
        /\ Leave

\* RsaKeyManager has imported the keys (initializeRsaKeys has finished)
KeysLoaded ==
    /\ ~keysLoaded
    /\ WSCommit([WS EXCEPT !.keysLoaded = TRUE])
    /\ Leave

\* time passes without an inbound frame
TimePasses ==
    /\ silence < Len(Silences)
    /\ WSCommit([WS EXCEPT !.silence = @ + 1])
    /\ handshake' = Stay

Connect ==
    \E newOk \in BOOLEAN :
        /\ FreeSocks(WS) # {}
        /\ WSCommit(connect(WS, newOk))
        /\ handshake' = IF state = DISCONNECTED /\ authToken # NoToken /\ newOk
                        THEN 1 ELSE 0

Disconnect ==
    /\ WSCommit(disconnect(WS))
    /\ Leave

\* the reconnect timeout fires: () => this.connect()
ReconnectTimeout ==
    \E newOk \in BOOLEAN :
        /\ reconnectTimeout = "pending"
        /\ FreeSocks(WS) # {}
        /\ WSCommit(connect([WS EXCEPT !.reconnectTimeout = "fired"], newOk))
        /\ Leave

SocketOpen ==
    \E x \in SockIds :
        /\ sockPhase[x] = "connecting"
        /\ Bounded(handleOpen([WS EXCEPT !.sockPhase[x] = "open"]))
        /\ WSCommit(handleOpen([WS EXCEPT !.sockPhase[x] = "open"]))
        /\ handshake' = IF handshake = 1 /\ x = socket /\ keysLoaded
                        THEN 2 ELSE 0

SocketMessage(sc) ==
    \E x \in SockIds, frame \in sc.frames :
        /\ sockPhase[x] \in {"open", "closing"}
        /\ Bounded(handleMessage(WS, frame))
        /\ WSCommit(handleMessage(WS, frame))
        /\ handshake' = IF handshake = 2 /\ x = socket /\ frame = "welcome"
                        THEN 3 ELSE 0

AuthenticateDone ==
    /\ pending["auth"] > 0
    /\ WSCommit(authenticateDone(Resume(WS, "auth")))
    /\ handshake' = IF CanWrite(WS) THEN Stay ELSE 0

HandleAuthMessageDone ==
    /\ pending["welcome"] > 0
    /\ Bounded(handleAuthMessageDone(Resume(WS, "welcome")))
    /\ WSCommit(handleAuthMessageDone(Resume(WS, "welcome")))
    /\ handshake' = IF handshake = 3 THEN 4 ELSE 0

CanReconnect(sc) == reconnectAttempts < sc.maxAttempts

\* the step's draw of Math.random()
Random(C, j) == [C EXCEPT !.jitter = j]

HandleDataMessageDone(sc) ==
    \E kind \in {"dataPing", "dataMessage"}, j \in sc.jitters :
        /\ pending[kind] > 0
        /\ CanReconnect(sc)
        /\ Bounded(handleDataMessageDone(Resume(WS, kind), kind))
        /\ WSCommit(handleDataMessageDone(Random(Resume(WS, kind), j), kind))
        /\ Leave

SendDone(sc) ==
    \E kind \in {"ping", "pong"}, j \in sc.jitters :
        /\ pending[kind] > 0
        /\ CanReconnect(sc)
        /\ WSCommit(sendDone(Random(Resume(WS, kind), j), kind))
        /\ Leave

PingTick(sc) ==
    \E j \in sc.jitters :
        /\ Heartbeats(WS) > 0
        /\ CanReconnect(sc)
        /\ Bounded(pingTick(WS))
        /\ WSCommit(pingTick(Random(WS, j)))
        /\ Leave

SocketError(sc) ==
    \E x \in SockIds, j \in sc.jitters :
        /\ sockPhase[x] \in {"connecting", "open", "closing", "aborted"}
        /\ CanReconnect(sc)
        /\ WSCommit(handleError([Random(WS, j) EXCEPT !.sockPhase[x] = "errored"]))
        /\ Leave

SocketClose(sc) ==
    \E x \in SockIds, code \in CloseCodes, j \in sc.jitters :
        /\ sockPhase[x] \in {"open", "closing", "errored"}
        /\ CanReconnect(sc)
        /\ WSCommit(handleClose([Random(WS, j) EXCEPT !.sockPhase[x] = "gone"],
                                code))
        /\ Leave

\* what a specification lets the environment do: the frames the server
\* sends, the jitter drawn and where the reconnect counter is cut off
HandshakeScope ==
    [frames |-> {"welcome", "ping", "garbage"}, jitters |-> {0},
     maxAttempts |-> MaxAttempts]

\* connection attempts that fail before authentication completes
RetryScope ==
    [frames |-> {}, jitters |-> Jitters, maxAttempts |-> RetryMaxAttempts]

WSNext(sc) ==
    \/ SetAuthToken
    \/ OnConnect
    \/ KeysLoaded
    \/ TimePasses
    \/ Connect
    \/ Disconnect
    \/ ReconnectTimeout
    \/ SocketOpen
    \/ SocketMessage(sc)
    \/ AuthenticateDone
    \/ HandleAuthMessageDone
    \/ HandleDataMessageDone(sc)
    \/ SendDone(sc)
    \/ PingTick(sc)
    \/ SocketError(sc)
    \/ SocketClose(sc)

\* the one connect() call of the user, made once the keys are loaded
FirstConnect ==
    /\ keysLoaded
    /\ state = DISCONNECTED
    /\ socket = NoSocket
    /\ reconnectAttempts = 0
    /\ Connect

\* observers of every kind, some of which throw
ObserverScope ==
    [frames |-> {"welcome", "botsInit"}, jitters |-> {0},
     maxAttempts |-> MaxAttempts]

\* one connection, from the user's connect() to the socket's close
ObserverNext ==
    \/ Subscribe
    \/ SetAuthToken
    \/ KeysLoaded
    \/ FirstConnect
    \/ SocketOpen
    \/ SocketMessage(ObserverScope)
    \/ AuthenticateDone
    \/ HandleAuthMessageDone
    \/ HandleDataMessageDone(ObserverScope)
    \/ SocketError(ObserverScope)
    \/ SocketClose(ObserverScope)

\* the client left alone with a server that fails every attempt
RetryNext ==
    \/ SetAuthToken
    \/ KeysLoaded
    \/ FirstConnect
    \/ ReconnectTimeout
    \/ SocketOpen
    \/ AuthenticateDone
    \/ SocketError(RetryScope)
    \/ SocketClose(RetryScope)

\* ------------------------------------------------------------------------
\* ClientMessageEncryptor: hybrid encryption of a frame
\* ------------------------------------------------------------------------
\* A string is the sequence of its UTF-16 code units, a byte array a
\* sequence of numbers below 256, Base64 text a sequence of the values
\* 0..63 of its characters with Pad for "=". The block cipher and the
\* public-key cipher are stand-ins that keep the shape of the real ones:
\* AES-CBC pads to whole blocks of 16 bytes (PKCS#7), chains each block with
\* the one before it and is undone only with the same key and IV; RSA-OAEP
\* is undone only with the private key of the pair and fails otherwise.

Failure == <<-1>>        \* the operation throws
NoText == <<-2>>         \* nothing there yet
NoKey == 0               \* null in place of a CryptoKey

BlockSize == 16
Pad == 64

\* code units of the plaintexts: "A", "e" with acute accent, the two halves
\* of a surrogate pair (U+1F600), and U+FEFF
Units == {65, 233, 55357, 56832, 65279}

\* the plaintexts: every string of up to MaxChars of these code units, the
\* empty one included, and one that fills a cipher block exactly
Strings ==
    UNION {[1..n -> Units] : n \in 0..MaxChars} \cup {[n \in 1..BlockSize |-> 65]}

KeySeeds == {0, 200}
IvSeeds == {0, 250}
KeyPairs == {1, 2}

IsHigh(u) == u >= 55296 /\ u <= 56319
IsLow(u) == u >= 56320 /\ u <= 57343

\* UTF-8 encoding of one code point
Utf8(cp) ==
    IF cp < 128 THEN <<cp>>
    ELSE IF cp < 2048 THEN <<192 + (cp \div 64), 128 + (cp % 64)>>
    ELSE IF cp < 65536
    THEN <<224 + (cp \div 4096), 128 + ((cp \div 64) % 64), 128 + (cp % 64)>>
    ELSE <<240 + (cp \div 262144), 128 + ((cp \div 4096) % 64),
           128 + ((cp \div 64) % 64), 128 + (cp % 64)>>

\* new TextEncoder().encode(s): a surrogate without its partner becomes
\* U+FFFD
RECURSIVE encode(_)
encode(s) ==
    IF s = <<>> THEN <<>>
    ELSE IF Len(s) >= 2 /\ IsHigh(s[1]) /\ IsLow(s[2])
    THEN Utf8(65536 + (s[1] - 55296) * 1024 + (s[2] - 56320))
         \o encode(SubSeq(s, 3, Len(s)))
    ELSE IF IsHigh(s[1]) \/ IsLow(s[1])
    THEN Utf8(65533) \o encode(Tail(s))
    ELSE Utf8(s[1]) \o encode(Tail(s))

\* code units of one code point
Utf16(cp) ==
    IF cp < 65536 THEN <<cp>>
    ELSE <<55296 + ((cp - 65536) \div 1024), 56320 + ((cp - 65536) % 1024)>>

IsCont(b, i) == i <= Len(b) /\ b[i] >= 128 /\ b[i] < 192

\* UTF-8 decoding, a byte that starts no well-formed sequence becoming
\* U+FFFD
RECURSIVE decodeFrom(_, _)
decodeFrom(b, i) ==
    IF i > Len(b) THEN <<>>
    ELSE IF b[i] < 128
    THEN <<b[i]>> \o decodeFrom(b, i + 1)
    ELSE IF b[i] >= 194 /\ b[i] < 224 /\ IsCont(b, i + 1)
    THEN Utf16((b[i] - 192) * 64 + (b[i + 1] - 128)) \o decodeFrom(b, i + 2)
    ELSE IF b[i] >= 224 /\ b[i] < 240 /\ IsCont(b, i + 1) /\ IsCont(b, i + 2)
            /\ (b[i] - 224) * 4096 + (b[i + 1] - 128) * 64 >= 2048
            /\ ~IsHigh((b[i] - 224) * 4096 + (b[i + 1] - 128) * 64)
            /\ ~IsLow((b[i] - 224) * 4096 + (b[i + 1] - 128) * 64)
    THEN Utf16((b[i] - 224) * 4096 + (b[i + 1] - 128) * 64 + (b[i + 2] - 128))
         \o decodeFrom(b, i + 3)
    ELSE IF b[i] >= 240 /\ b[i] < 245 /\ IsCont(b, i + 1) /\ IsCont(b, i + 2)
            /\ IsCont(b, i + 3)
            /\ (b[i] - 240) * 262144 + (b[i + 1] - 128) * 4096 >= 65536
            /\ (b[i] - 240) * 262144 + (b[i + 1] - 128) * 4096 < 1114112
    THEN Utf16((b[i] - 240) * 262144 + (b[i + 1] - 128) * 4096
               + (b[i + 2] - 128) * 64 + (b[i + 3] - 128))
         \o decodeFrom(b, i + 4)
    ELSE <<65533>> \o decodeFrom(b, i + 1)

\* new TextDecoder().decode(b): UTF-8, not fatal, and a byte order mark at
\* the start is dropped (ignoreBOM is false)
decode(b) ==
    IF Len(b) >= 3 /\ SubSeq(b, 1, 3) = <<239, 187, 191>>
    THEN decodeFrom(b, 4)
    ELSE decodeFrom(b, 1)

\* encodeBase64: three bytes give four characters, the last group is padded
RECURSIVE encodeBase64(_)
encodeBase64(b) ==
    IF b = <<>> THEN <<>>
    ELSE IF Len(b) = 1
    THEN <<b[1] \div 4, (b[1] % 4) * 16, Pad, Pad>>
    ELSE IF Len(b) = 2
    THEN <<b[1] \div 4, (b[1] % 4) * 16 + (b[2] \div 16), (b[2] % 16) * 4,
           Pad>>
    ELSE <<b[1] \div 4, (b[1] % 4) * 16 + (b[2] \div 16),
           (b[2] % 16) * 4 + (b[3] \div 64), (b[3] % 64)>>
         \o encodeBase64(SubSeq(b, 4, Len(b)))

\* decodeBase64: four characters give up to three bytes
RECURSIVE decodeBase64(_)
decodeBase64(t) ==
    IF Len(t) < 4 THEN <<>>
    ELSE LET b1 == t[1] * 4 + (t[2] \div 16)
             b2 == (t[2] % 16) * 16 + (t[3] \div 4)
             b3 == (t[3] % 4) * 64 + t[4]
         IN  IF t[3] = Pad THEN <<b1>>
             ELSE IF t[4] = Pad THEN <<b1, (t[2] % 16) * 16 + (t[3] \div 4)>>
             ELSE <<b1, b2, b3>> \o decodeBase64(SubSeq(t, 5, Len(t)))

\* crypto.getRandomValues: a 32-byte key and a 16-byte IV
generateRandomAesKey(keySeed, ivSeed) ==
    [key |-> [n \in 1..32 |-> (keySeed + 7 * n) % 256],
     iv |-> [n \in 1..BlockSize |-> (ivSeed + 3 * n) % 256]]

\* PKCS#7: 1 to 16 bytes are added, each holding their number
Padded(data) ==
    LET n == BlockSize - (Len(data) % BlockSize)
    IN  data \o [j \in 1..n |-> n]

\* the byte the block before position j contributes: the IV for the first
\* block, the ciphertext one block back afterwards
Chain(c, iv, j) == IF j <= BlockSize THEN iv[j] ELSE c[j - BlockSize]

RECURSIVE cbc(_, _, _, _)
cbc(p, key, iv, c) ==
    IF Len(c) = Len(p) THEN c
    ELSE LET j == Len(c) + 1 IN
         cbc(p, key, iv,
             Append(c, (p[j] + Chain(c, iv, j) + key[((j - 1) % 32) + 1]) % 256))

\* crypto.subtle.encrypt({name: "AES-CBC", iv}, key, data)
encryptWithAes(data, key, iv) == cbc(Padded(data), key, iv, <<>>)

\* a decryption that returns the padding with the data
decryptWithAes_keepsPadding(c, key, iv) ==
    IF Len(c) = 0 \/ Len(c) % BlockSize # 0
    THEN Failure
    ELSE [j \in 1..Len(c) |->
             (c[j] + 512 - Chain(c, iv, j) - key[((j - 1) % 32) + 1]) % 256]

\* crypto.subtle.decrypt({name: "AES-CBC", iv}, key, data): throws unless
\* the data is whole blocks that end in a well-formed padding
decryptWithAes(c, key, iv) ==
    IF Len(c) = 0 \/ Len(c) % BlockSize # 0
    THEN Failure
    ELSE LET p == [j \in 1..Len(c) |->
                      (c[j] + 512 - Chain(c, iv, j) - key[((j - 1) % 32) + 1]) % 256]
             n == p[Len(p)]
         IN  IF n < 1 \/ n > BlockSize
                \/ \E j \in (Len(p) - n + 1)..Len(p) : p[j] # n
             THEN Failure
             ELSE SubSeq(p, 1, Len(p) - n)

\* an RSA key pair is named by a number: the public key n encrypts for the
\* private key n
\* crypto.subtle.encrypt({name: "RSA-OAEP"}, serverPublicKey, aesKey), Base64
encryptAesKeyWithRsa(aesKey, serverPublicKey) ==
    encodeBase64(<<serverPublicKey>>
                 \o [n \in 1..Len(aesKey) |-> (aesKey[n] + serverPublicKey) % 256])

\* crypto.subtle.decrypt({name: "RSA-OAEP"}, clientPrivateKey, encryptedKey)
decryptAesKeyWithRsa(encryptedKeyBase64, clientPrivateKey) ==
    LET e == decodeBase64(encryptedKeyBase64) IN
    IF Len(e) # 33 \/ e[1] # clientPrivateKey
    THEN Failure
    ELSE [n \in 1..32 |-> (e[n + 1] + 256 - clientPrivateKey) % 256]

\* JSON.stringify({k, i, d}): the three members, each after its name
K == -11
I == -12
D == -13
stringify(e) == <<K>> \o e.k \o <<I>> \o e.i \o <<D>> \o e.d

Index(t, name) == CHOOSE n \in DOMAIN t : t[n] = name
Names3(t) == \A name \in {K, I, D} : \E n \in DOMAIN t : t[n] = name

\* the text is a JSON object: it begins with the name of a member
IsObject(t) == t # <<>> /\ t[1] \in {K, I, D}

\* where the member that begins at n ends
End(t, n) ==
    IF \E j \in (n + 1)..Len(t) : t[j] \in {K, I, D}
    THEN CHOOSE j \in (n + 1)..Len(t) :
             /\ t[j] \in {K, I, D}
             /\ \A h \in (n + 1)..(j - 1) : t[h] \notin {K, I, D}
    ELSE Len(t) + 1

\* the value of a member; one that is not there reads as falsy, like ""
Member(t, name) ==
    IF \E n \in DOMAIN t : t[n] = name
    THEN SubSeq(t, Index(t, name) + 1, End(t, Index(t, name)) - 1)
    ELSE <<>>

\* JSON.parse of such a text
parse(t) == [k |-> Member(t, K), i |-> Member(t, I), d |-> Member(t, D)]

\* the same text without one member, and with one member empty
Without(t, name) ==
    (IF name = K THEN <<>> ELSE <<K>> \o parse(t).k)
    \o (IF name = I THEN <<>> ELSE <<I>> \o parse(t).i)
    \o (IF name = D THEN <<>> ELSE <<D>> \o parse(t).d)

Blank(t, name) ==
    <<K>> \o (IF name = K THEN <<>> ELSE parse(t).k)
    \o <<I>> \o (IF name = I THEN <<>> ELSE parse(t).i)
    \o <<D>> \o (IF name = D THEN <<>> ELSE parse(t).d)

encryptHybrid(data, serverPublicKey, keySeed, ivSeed) ==
    LET r == generateRandomAesKey(keySeed, ivSeed)
        encryptedData == encryptWithAes(data, r.key, r.iv)
        encryptedKey == encryptAesKeyWithRsa(r.key, serverPublicKey)
    IN  stringify([k |-> encryptedKey,
                   i |-> encodeBase64(r.iv),
                   d |-> encodeBase64(encryptedData)])

\* what a call returns (or Failure when it throws) and the calls it made
Answer(value, made) == [value |-> value, calls |-> made]
NoAnswer == Answer(NoText, <<>>)

\* decryptHybrid without its check of the members
decryptHybrid_unchecked(encryptedMessage, clientPrivateKey) ==
    IF ~IsObject(encryptedMessage) THEN Answer(Failure, <<"JSON.parse">>)
    ELSE LET parsedMessage == parse(encryptedMessage)
             iv == decodeBase64(parsedMessage.i)
             encryptedData == decodeBase64(parsedMessage.d)
             aesKey == decryptAesKeyWithRsa(parsedMessage.k, clientPrivateKey)
         IN  IF aesKey = Failure
             THEN Answer(Failure, <<"JSON.parse", "decryptAesKeyWithRsa">>)
             ELSE Answer(decryptWithAes(encryptedData, aesKey, iv),
                         <<"JSON.parse", "decryptAesKeyWithRsa",
                           "decryptWithAes">>)

decryptHybrid(encryptedMessage, clientPrivateKey) ==
    IF ~IsObject(encryptedMessage) THEN Answer(Failure, <<"JSON.parse">>)
    ELSE LET parsedMessage == parse(encryptedMessage) IN
    IF parsedMessage.k = <<>> \/ parsedMessage.i = <<>> \/ parsedMessage.d = <<>>
    THEN Answer(Failure, <<"JSON.parse">>)
    ELSE LET iv == decodeBase64(parsedMessage.i)
             encryptedData == decodeBase64(parsedMessage.d)
             aesKey == decryptAesKeyWithRsa(parsedMessage.k, clientPrivateKey)
         IN  IF aesKey = Failure
             THEN Answer(Failure, <<"JSON.parse", "decryptAesKeyWithRsa">>)
             ELSE LET decryptedData == decryptWithAes(encryptedData, aesKey, iv)
                  IN  IF decryptedData = Failure
                      THEN Answer(Failure, <<"JSON.parse", "decryptAesKeyWithRsa",
                                             "decryptWithAes">>)
                      ELSE Answer(decode(decryptedData),
                                  <<"JSON.parse", "decryptAesKeyWithRsa",
                                    "decryptWithAes", "decode">>)

\* the encryptor's fields as one record
CE == encryptor

\* a path names the key its file holds; NoKey stands for no path, NoFile for
\* the path of a file that cannot be read or imported
NoFile == -1
Paths == KeyPairs \cup {NoKey, NoFile}

\* constructor: any name but "NONE" selects RSA; the keys arrive later
ClientMessageEncryptor(algorithm, serverPublicKeyPath, clientPrivateKeyPath) ==
    [algorithm |-> IF algorithm = "NONE" THEN "NONE" ELSE "RSA",
     keyManager |-> FALSE,
     serverPublicKey |-> NoKey,
     clientPrivateKey |-> NoKey,
     serverPublicKeyPath |-> serverPublicKeyPath,
     clientPrivateKeyPath |-> clientPrivateKeyPath,
     rejected |-> FALSE]

\* RsaKeyManager.initialize reads the file of every path it is given and
\* throws at the first it cannot read or import; initializeRsaKeys throws
\* with it, before it has taken either key, and nobody awaits its promise.
\* Otherwise each key that has a path is taken, the other is left null.
initializeRsaKeys(E, serverPublicKeyPath, clientPrivateKeyPath) ==
    IF serverPublicKeyPath = NoFile \/ clientPrivateKeyPath = NoFile
    THEN [E EXCEPT !.rejected = TRUE]
    ELSE [E EXCEPT !.keyManager = TRUE,
                   !.serverPublicKey = serverPublicKeyPath,
                   !.clientPrivateKey = clientPrivateKeyPath]

encrypt(E, message, keySeed, ivSeed) ==
    IF E.algorithm = "NONE" THEN message
    ELSE IF E.serverPublicKey = NoKey THEN Failure
    ELSE encryptHybrid(encode(message), E.serverPublicKey, keySeed, ivSeed)

decrypt(E, encryptedMessage) ==
    IF E.algorithm = "NONE" THEN Answer(encryptedMessage, <<>>)
    ELSE IF E.clientPrivateKey = NoKey THEN Answer(Failure, <<>>)
    ELSE decryptHybrid(encryptedMessage, E.clientPrivateKey)

NoEncryptor ==
    [algorithm |-> "unset", keyManager |-> FALSE,
     serverPublicKey |-> NoKey, clientPrivateKey |-> NoKey,
     serverPublicKeyPath |-> NoKey, clientPrivateKeyPath |-> NoKey,
     rejected |-> FALSE]

CryptoInit ==
    /\ encryptor = NoEncryptor
    /\ plain = NoText
    /\ sealed = NoText
    /\ opened = NoText
    /\ inbound = NoText
    /\ answer = NoAnswer

CryptoCommit(E, m, s, o, f, a) ==
    /\ encryptor' = E
    /\ plain' = m
    /\ sealed' = s
    /\ opened' = o
    /\ inbound' = f
    /\ answer' = a
    /\ UNCHANGED <<wmVars, wsVars, fsVars, threadVars>>

\* new ClientMessageEncryptor(algorithm, ...)
NewEncryptor ==
    /\ encryptor = NoEncryptor
    /\ \E algorithm \in {"RSA", "NONE", "AES"},
          serverPublicKeyPath \in Paths, clientPrivateKeyPath \in Paths :
          CryptoCommit(ClientMessageEncryptor(algorithm, serverPublicKeyPath,
                                              clientPrivateKeyPath),
                       plain, sealed, opened, inbound, answer)

\* initializeRsaKeys, which the constructor started, has run to its end;
\* what a caller got before is forgotten
InitializeRsaKeys ==
    /\ CE.algorithm = "RSA"
    /\ ~CE.keyManager
    /\ ~CE.rejected
    /\ CryptoCommit(initializeRsaKeys(CE, CE.serverPublicKeyPath,
                                      CE.clientPrivateKeyPath),
                    NoText, NoText, NoText, NoText, NoAnswer)

\* encrypt(message) with what crypto.getRandomValues gives in this call;
\* one call is followed per encryptor, no call depending on another
Encrypt ==
    /\ CE.algorithm # "unset"
    /\ plain = NoText
    /\ inbound = NoText
    /\ \E message \in Strings, keySeed \in KeySeeds, ivSeed \in IvSeeds :
          CryptoCommit(CE, message, encrypt(CE, message, keySeed, ivSeed),
                       NoText, inbound, answer)

\* decrypt(encryptedMessage) of what encrypt returned
Decrypt ==
    /\ sealed # NoText
    /\ sealed # Failure
    /\ opened = NoText
    /\ CryptoCommit(CE, plain, sealed, decrypt(CE, sealed).value,
                    inbound, answer)

\* an envelope as the server seals it for the key pair 1
ServerFrame == encryptHybrid(encode(<<65>>), 1, 200, 250)

\* the message types of the protocol that the client tells apart, each
\* written as the one letter that stands for its JSON text
Types == {"welcome", "ping", "pong", "botsInit"}
Json(type) ==
    CASE type = "welcome" -> <<119>>
      [] type = "ping" -> <<112>>
      [] type = "pong" -> <<111>>
      [] type = "botsInit" -> <<98>>

\* JSON.parse(decryptedData).type; "garbage" when decrypt or JSON.parse throws
TypeOf(text) ==
    IF \E type \in Types : Json(type) = text
    THEN CHOOSE type \in Types : Json(type) = text
    ELSE "garbage"

Sealed(text) == encryptHybrid(encode(text), 1, 200, 250)

\* the frames that arrive: a message of each type sealed for the key pair 1,
\* a sealed text that is no JSON, and that envelope with one member missing;
\* besides, the envelope with one member empty and a text that is no JSON
\* object
ServerFrames ==
    {ServerFrame}
    \cup {Sealed(Json(type)) : type \in Types}
    \cup {Without(ServerFrame, name) : name \in {K, I, D}}

InboundFrames ==
    ServerFrames \cup {<<65>>}
    \cup {Blank(ServerFrame, name) : name \in {K, I, D}}

\* decrypt(data) of an inbound frame; one call is followed per encryptor
DecryptFrame ==
    /\ CE.algorithm # "unset"
    /\ inbound = NoText
    /\ plain = NoText
    /\ \E data \in InboundFrames :
          CryptoCommit(CE, plain, sealed, opened, data, decrypt(CE, data))

\* the client's encryptor is constructed with algorithm RSA and its key
\* files, both there, have been read
ReadKeys ==
    /\ CE = NoEncryptor
    /\ ~keysLoaded
    /\ encryptor' = initializeRsaKeys(ClientMessageEncryptor("RSA", 1, 1), 1, 1)
    /\ WSSet([WS EXCEPT !.keysLoaded = TRUE])
    /\ handshake' = 0
    /\ UNCHANGED <<wmVars, fsVars, threadVars, plain, sealed, opened, inbound,
                   answer>>

\* socket.onmessage with the frame itself: handleMessage, where the type
\* the handlers see is what decrypt and JSON.parse make of the data
SocketData ==
    \E x \in SockIds, data \in ServerFrames :
        LET a == decrypt(CE, data)
            type == IF a.value = Failure THEN "garbage" ELSE TypeOf(a.value)
        IN  /\ sockPhase[x] \in {"open", "closing"}
            /\ Bounded(handleMessage(WS, type))
            /\ WSSet(handleMessage(WS, type))
            /\ handshake' = 0
            /\ inbound' = data
            /\ answer' = a
            /\ UNCHANGED <<wmVars, fsVars, threadVars, encryptor, plain, sealed,
                           opened>>

\* onMessage(handler), before the client is started
OnMessage ==
    /\ Registered(WS) < MaxObservers
    /\ authToken = NoToken
    /\ WSCommit(on(WS, "message", <<Len(messageHandlers) + 1, FALSE>>))
    /\ Leave

\* setAuthToken(token), once
FirstToken ==
    /\ authToken = NoToken
    /\ SetAuthToken

\* the user's connect(), while no socket of an earlier one is left
OnlyConnect ==
    /\ \A x \in SockIds : sockPhase[x] = "gone"
    /\ FirstConnect

\* a client with its keys, one connection at a time, and the frames of a
\* server
InboundScope ==
    [frames |-> {}, jitters |-> {0}, maxAttempts |-> MaxAttempts]

InboundNext ==
    \/ OnConnect
    \/ OnMessage
    \/ FirstToken
    \/ ReadKeys
    \/ OnlyConnect
    \/ Disconnect
    \/ SocketOpen
    \/ SocketData
    \/ AuthenticateDone
    \/ HandleAuthMessageDone
    \/ HandleDataMessageDone(InboundScope)
    \/ SendDone(InboundScope)

CryptoNext ==
    \/ NewEncryptor
    \/ InitializeRsaKeys
    \/ Encrypt
    \/ Decrypt
    \/ DecryptFrame

\* ------------------------------------------------------------------------
\* Config and GameService: the bots directory
\* ------------------------------------------------------------------------
\* A file of the directory is named by its base name and its extension and
\* holds either a JSON object, of which only the member "name" matters ("" if
\* it has none), or a text that is no JSON. Directories and links inside the
\* bots directory are left out.

BotNames == {"a", "b"}
Exts == {"json", "jsonc", "txt"}
FileNames == BotNames \X Exts

Absent == [kind |-> "absent", name |-> ""]
Invalid == [kind |-> "invalid", name |-> ""]
BotJson(name) == [kind |-> "json", name |-> name]
Contents == {Invalid} \cup {BotJson(name) : name \in BotNames \cup {""}}

\* the entries Deno.readDir / Deno.readDirSync lists
Entries(F) == {f \in FileNames : F[f] # Absent}

\* parseConfigFile: parse of jsonc-parser, then JSON.parse if that throws.
\* What parse makes of a text that is no JSON is the library's affair: it
\* throws (and so does JSON.parse) or it returns what it could read, an
\* object without members here.
parseConfigFile(content, lenient) ==
    IF content.kind = "json" THEN [throws |-> FALSE, name |-> content.name]
    ELSE IF lenient THEN [throws |-> FALSE, name |-> ""]
    ELSE [throws |-> TRUE, name |-> ""]

NoBot == [loaded |-> FALSE, name |-> ""]

\* the body of the loop of loadBots for one entry: this.bots[botName] =
\* {name: botName, ...botConfig}, where a member "name" of the file comes
\* last and stays
loadBot(B, F, f, lenient) ==
    IF f[2] \notin {"json", "jsonc"} THEN B
    ELSE LET botConfig == parseConfigFile(F[f], lenient) IN
         IF botConfig.throws THEN B
         ELSE [B EXCEPT ![f[1]] =
                  [loaded |-> TRUE,
                   name |-> IF botConfig.name # "" THEN botConfig.name
                            ELSE f[1]]]

RECURSIVE loadEach(_, _, _, _, _)
loadEach(B, F, order, i, lenient) ==
    IF i > Len(order) THEN B
    ELSE loadEach(IF order[i] \in Entries(F)
                  THEN loadBot(B, F, order[i], lenient) ELSE B,
                  F, order, i + 1, lenient)

\* loadBots over the directory as readDirSync lists it
loadBots(B, F, order, lenient) == loadEach(B, F, order, 1, lenient)

\* Config.reload: loadConfig, of which loadBots is the part that touches bots
reload(B, F, order, lenient) == loadBots(B, F, order, lenient)

\* the orders in which a directory is listed: x.json before x.jsonc, or after
DirOrders ==
    {<< <<"a", "json">>, <<"a", "jsonc">>, <<"a", "txt">>,
        <<"b", "json">>, <<"b", "jsonc">>, <<"b", "txt">> >>,
     << <<"b", "txt">>, <<"b", "jsonc">>, <<"b", "json">>,
        <<"a", "txt">>, <<"a", "jsonc">>, <<"a", "json">> >>}

\* handleBotsInit ---------------------------------------------------------

\* an item of the payload: an object with a name, an object without one ("")
\* or null
Items == BotNames \cup {"", "null"}
Lists == UNION {[1..n -> Items] : n \in 0..MaxItems}
NotAList == <<"not a list">>
Payloads == Lists \cup {NotAList}

JobIds == 1..MaxJobs
\* the call for a message that arrives while those are in progress
Later == MaxJobs + 1
Slots == JobIds \cup {Later}
NoJob == [pc |-> "none", bots |-> <<>>, todo |-> {}, removed |-> {}, i |-> 0]

\* the call up to its first await: a payload that is no array returns at once
handleBotsInit(payload) ==
    IF payload = NotAList
    THEN [NoJob EXCEPT !.pc = "returned", !.bots = payload]
    ELSE [NoJob EXCEPT !.pc = "mkdir", !.bots = payload]

\* after Deno.mkdir: the directory is listed
readDir(J, F) == [J EXCEPT !.pc = "clean", !.todo = Entries(F)]

\* the next item at or after i that is not skipped for having no name
RECURSIVE Advance(_, _)
Advance(list, i) ==
    IF i <= Len(list) /\ list[i] = "" THEN Advance(list, i + 1) ELSE i

\* the loop over the listing: Deno.remove of one entry, which the call then
\* logs as removed; a NotFound ends the call in its outer catch
remove(J, F, f) ==
    IF F[f] = Absent
    THEN [job |-> [J EXCEPT !.pc = "returned"], files |-> F]
    ELSE [job |-> [J EXCEPT !.todo = @ \ {f}, !.removed = @ \cup {f}],
          files |-> [F EXCEPT ![f] = Absent]]

\* the loop over the payload, from item i to the next writeTextFile: items
\* without a name are skipped, reading the name of null throws into the outer
\* catch
writeTextFile(J, F) ==
    LET j == Advance(J.bots, J.i) IN
    IF j > Len(J.bots)
    THEN [job |-> [J EXCEPT !.pc = "returned", !.i = j], files |-> F]
    ELSE IF J.bots[j] = "null"
    THEN [job |-> [J EXCEPT !.pc = "returned", !.i = j], files |-> F]
    ELSE [job |-> [J EXCEPT !.i = j + 1],
          files |-> [F EXCEPT ![<<J.bots[j], "json">>] = BotJson(J.bots[j])]]

FsInit ==
    /\ botFiles = [f \in FileNames |-> Absent]
    /\ bots = [n \in BotNames |-> NoBot]
    /\ jobs = [j \in Slots |-> NoJob]

FsCommit(F, B, J) ==
    /\ botFiles' = F
    /\ bots' = B
    /\ jobs' = J
    /\ UNCHANGED <<wmVars, wsVars, cryptoVars, threadVars>>

\* somebody puts a file into the bots directory, or edits one
WriteBotFile ==
    \E f \in FileNames, content \in Contents :
        /\ f \in Entries(botFiles) \/ Cardinality(Entries(botFiles)) < MaxFiles
        /\ FsCommit([botFiles EXCEPT ![f] = content], bots, jobs)

RemoveBotFile ==
    \E f \in Entries(botFiles) :
        FsCommit([botFiles EXCEPT ![f] = Absent], bots, jobs)

\* config.reload(), and the load of the constructor; the settings and the
\* game configuration it also loads do not touch bots
Reload ==
    \E order \in DirOrders, lenient \in BOOLEAN :
        /\ bots' = reload(bots, botFiles, order, lenient)
        /\ UNCHANGED <<botFiles, jobs, wmVars, wsVars, cryptoVars, threadVars>>

ConfigNext ==
    \/ WriteBotFile
    \/ RemoveBotFile
    \/ Reload

\* a botsInit message is handed to the handler
BotsInit ==
    \E j \in JobIds, payload \in Payloads :
        /\ jobs[j].pc \in {"none", "returned"}
        /\ FsCommit(botFiles, bots, [jobs EXCEPT ![j] = handleBotsInit(payload)])

\* the steps of the calls in progress, for the calls js
ReadDir(js) ==
    \E j \in js :
        /\ jobs[j].pc = "mkdir"
        /\ FsCommit(botFiles, bots, [jobs EXCEPT ![j] = readDir(@, botFiles)])

Remove(js) ==
    \E j \in js, f \in FileNames :
        /\ jobs[j].pc = "clean"
        /\ f \in jobs[j].todo
        /\ FsCommit(remove(jobs[j], botFiles, f).files, bots,
                    [jobs EXCEPT ![j] = remove(@, botFiles, f).job])

\* the listing is at its end
Cleaned(js) ==
    \E j \in js :
        /\ jobs[j].pc = "clean"
        /\ jobs[j].todo = {}
        /\ FsCommit(botFiles, bots, [jobs EXCEPT ![j].pc = "write", ![j].i = 1])

Write(js) ==
    \E j \in js :
        /\ jobs[j].pc = "write"
        /\ FsCommit(writeTextFile(jobs[j], botFiles).files, bots,
                    [jobs EXCEPT ![j] = writeTextFile(@, botFiles).job])

\* the entries the directory holds before the first botsInit arrives
PreviousEntry ==
    /\ \A j \in Slots : jobs[j] = NoJob
    /\ WriteBotFile

\* two botsInit messages, the second received while the handler of the
\* first is at work: triggerMessageHandlers calls the handler and does not
\* await the promise it returns
NamedLists == UNION {[1..n -> BotNames] : n \in 0..MaxItems}

FirstPush ==
    \E payload \in NamedLists :
        /\ \A j \in Slots : jobs[j] = NoJob
        /\ FsCommit(botFiles, bots, [jobs EXCEPT ![1] = handleBotsInit(payload)])

SecondPush ==
    \E payload \in NamedLists :
        /\ jobs[1].pc # "none"
        /\ jobs[Later] = NoJob
        /\ FsCommit(botFiles, bots,
                    [jobs EXCEPT ![Later] = handleBotsInit(payload)])

\* the call for the first message and the call for the second
Both == {1, Later}

OverlapNext ==
    \/ PreviousEntry
    \/ FirstPush
    \/ SecondPush
    \/ ReadDir(Both)
    \/ Remove(Both)
    \/ Cleaned(Both)
    \/ Write(Both)

BotsInitNext ==
    \/ PreviousEntry
    \/ BotsInit
    \/ ReadDir(JobIds)
    \/ Remove(JobIds)
    \/ Cleaned(JobIds)
    \/ Write(JobIds)

\* ------------------------------------------------------------------------
\* The relay of a unit's Send signal
\* ------------------------------------------------------------------------
\* the fields of a WorkerManager and of a WebSocketClient after construction
NewWM ==
    [workers |-> [n \in Names |-> NoUnit], status |-> [n \in Names |-> NoStatus],
     errorCounts |-> [n \in Names |-> NoCount], timers |-> <<>>,
     destroyed |-> {}, effects |-> <<>>, ret |-> "void"]

NewWS ==
    [state |-> DISCONNECTED, socket |-> NoSocket,
     sockPhase |-> [x \in SockIds |-> "gone"], authToken |-> NoToken,
     clientId |-> NoClientId, reconnectAttempts |-> 0,
     reconnectTimeout |-> "null", pingInterval |-> FALSE, leaked |-> 0,
     silence |-> Len(Silences), keysLoaded |-> FALSE,
     pending |-> [k \in PendingKinds |-> 0], connectionHandlers |-> <<>>,
     messageHandlers |-> <<>>, errorHandlers |-> <<>>, closeHandlers |-> <<>>,
     calls |-> <<>>, jitter |-> 0]

\* A promise is rejected and nothing handles it: handleWorkerMessage neither
\* awaits nor catches the promise of sendBotMessage, and main.ts installs no
\* unhandledrejection listener, so the runtime ends the process. Its units,
\* timers, sockets and keys are gone; what is left is the directory on disk,
\* and the state of a process that is started again.
Exit(effs) ==
    /\ WMSet([NewWM EXCEPT !.effects = Append(effs, <<"exit">>)])
    /\ WSSet(NewWS)
    /\ handshake' = 0
    /\ encryptor' = NoEncryptor
    /\ plain' = NoText
    /\ sealed' = NoText
    /\ opened' = NoText
    /\ inbound' = NoText
    /\ answer' = NoAnswer
    /\ bots' = [n \in BotNames |-> NoBot]
    /\ jobs' = [j \in Slots |-> NoJob]
    /\ agent' = FALSE
    /\ isRunning' = FALSE
    /\ loops' = 0
    /\ starts' = 0
    /\ posted' = <<>>
    /\ inbox' = <<>>
    /\ UNCHANGED botFiles

\* sendBotMessage: wsClient.send and sendRaw up to its await
sendBotMessage(C) == Await(C, "relay")

\* a Send signal of a Worker: handleWorkerMessage, and the call of
\* sendBotMessage it makes, up to the await of sendRaw
WorkerSend ==
    \E name \in Names :
      \E worker \in Sources(name) :
        /\ LET S == [handleWorkerMessage(WM, name, SEND) EXCEPT !.ret = "void"]
           IN  IF CanEncrypt(WS)
               THEN /\ InFlight(WS) < MaxPending
                    /\ WMSet(S)
                    /\ WSSet(sendBotMessage(WS))
                    /\ handshake' = Stay
                    /\ UNCHANGED <<cryptoVars, fsVars, threadVars>>
               ELSE Exit(S.effects)
        /\ op' = <<"message", name, <<worker, SEND>> >>

\* sendRaw after its await: socket.send, whose exception is thrown on to
\* sendBotMessage and from there to nobody
RelayDone ==
    /\ pending["relay"] > 0
    /\ IF CanWrite(Resume(WS, "relay"))
       THEN /\ WSCommit(write(Resume(WS, "relay"), "relay"))
            /\ handshake' = Stay
       ELSE /\ Exit(<<>>)
            /\ op' = <<"exit", NoName, NoName>>

\* one unit and one connection
RelayScope == [names |-> {"a"}, maxCount |-> 1, maxTimers |-> 1]

RelayNext ==
    \/ InitWorker(RelayScope)
    \/ StartWorker
    \/ StopWorker
    \/ TerminateWorker
    \/ WorkerErrorEvent(RelayScope)
    \/ RecoveryTimeout
    \/ WorkerSend
    \/ RelayDone
    \/ FirstToken
    \/ ReadKeys
    \/ OnlyConnect
    \/ SocketOpen
    \/ AuthenticateDone
    \/ Disconnect

\* ------------------------------------------------------------------------
\* The Worker thread of a unit (worker/thread.ts)
\* ------------------------------------------------------------------------
ThreadInit ==
    /\ agent = FALSE
    /\ isRunning = FALSE
    /\ loops = 0
    /\ starts = 0
    /\ posted = <<>>
    /\ inbox = <<>>

\* the fields a step of the thread leaves; the supervisor and the transport
\* stand still
ThreadSet(a, r, l, s, p) ==
    /\ agent' = a
    /\ isRunning' = r
    /\ loops' = l
    /\ starts' = s
    /\ posted' = p
    /\ UNCHANGED <<wmVars, wsVars, cryptoVars, fsVars>>

\* the listener of "message" is called with the oldest message, of type
Dispatched(type) ==
    /\ inbox # <<>>
    /\ Head(inbox) = type
    /\ inbox' = Tail(inbox)

\* the messages a supervisor posts to its unit
ControlTypes == {INIT, START, STOP, TASK}

\* worker.postMessage({type}) in the supervisor
PostMessage ==
    \E type \in ControlTypes :
        /\ Len(inbox) < MaxInbox
        /\ inbox' = Append(inbox, type)
        /\ UNCHANGED <<agent, isRunning, loops, starts, posted>>
        /\ UNCHANGED <<wmVars, wsVars, cryptoVars, fsVars>>

\* case INIT: initAgent(config); ok: new Agent(config) does not throw
MsgInit ==
    \E ok \in BOOLEAN :
        /\ Dispatched(INIT)
        /\ ThreadSet(IF ok THEN TRUE ELSE agent, isRunning, loops, starts,
                     IF ok THEN <<LOG>> ELSE <<ERROR>>)

\* case START: startAgent() up to `await agent.start()`
MsgStart ==
    /\ Dispatched(START)
    /\ IF agent
       THEN /\ loops + starts < MaxLoops
            /\ ThreadSet(agent, isRunning, loops, starts + 1, <<>>)
       ELSE ThreadSet(agent, isRunning, loops, starts, <<ERROR>>)

\* startAgent() after `await agent.start()`: the flag is set and
\* runAgentLoop() is called, which runs up to the await of its first
\* iteration; a rejected start posts START_FAILED
startAgentDone(ok) ==
    IF ok
    THEN ThreadSet(agent, TRUE, loops + 1, starts - 1, <<LOG>>)
    ELSE ThreadSet(agent, isRunning, loops, starts - 1, <<START_FAILED, LOG>>)

StartDone ==
    \E ok \in BOOLEAN :
        /\ starts > 0
        /\ startAgentDone(ok)
        /\ UNCHANGED inbox

\* case STOP: stopAgent(); throws: agent.stop() throws (the Agent of
\* agent/index.ts declares no stop method, so the call is a TypeError)
MsgStop ==
    \E throws \in BOOLEAN :
        /\ Dispatched(STOP)
        /\ ~agent => ~throws
        /\ ThreadSet(agent, FALSE, loops, starts,
                     IF ~agent THEN <<LOG>>
                     ELSE IF throws THEN <<LOG, ERROR, LOG>>
                     ELSE <<LOG, LOG>>)

\* case TASK: processTask(task)
MsgTask ==
    /\ Dispatched(TASK)
    /\ ThreadSet(agent, isRunning, loops, starts,
                 IF agent THEN <<LOG, RESULT>> ELSE <<ERROR>>)

\* the await of one iteration of runAgentLoop ends (agent.mainLoop(), or the
\* 500 ms delay after an iteration that threw) and `while (isRunning)` is
\* tested again: the loop returns, or begins the next iteration, which
\* awaits in its turn; threw: the iteration that ended had thrown
LoopWakes ==
    \E threw \in BOOLEAN :
        /\ loops > 0
        /\ ThreadSet(agent, isRunning,
                     IF isRunning THEN loops ELSE loops - 1, starts,
                     IF threw THEN <<ERROR>> ELSE <<>>)
        /\ UNCHANGED inbox

ThreadNext ==
    \/ PostMessage
    \/ MsgInit
    \/ MsgStart
    \/ StartDone
    \/ MsgStop
    \/ MsgTask
    \/ LoopWakes

\* ------------------------------------------------------------------------
\* Server: the close observer that stops the units
\* ------------------------------------------------------------------------
RECURSIVE stopEach(_, _)
stopEach(S, names) ==
    IF names = {}
    THEN S
    ELSE LET name == CHOOSE n \in names : TRUE
         IN  stopEach(stopWorker(S, name), names \ {name})

\* a loop that passes over the units in status Error
stopAllWorkers_runningOnly(S) ==
    [stopEach(S, {n \in Names : S.workers[n] # NoUnit /\ S.status[n] = RUNNING})
        EXCEPT !.ret = "void"]

\* for (const name of this.workers.keys()) this.stopWorker(name)
stopAllWorkers(S) ==
    [stopEach(S, {n \in Names : S.workers[n] # NoUnit}) EXCEPT !.ret = "void"]

\* a close event of a socket, with the observer setupWebSocket registered:
\* () => this.workerManager.stopAllWorkers()
ServerClose(sc) ==
    \E x \in SockIds, code \in CloseCodes, j \in sc.jitters :
        /\ sockPhase[x] \in {"open", "closing", "errored"}
        /\ CanReconnect(sc)
        /\ WSSet(handleClose([Random(WS, j) EXCEPT !.sockPhase[x] = "gone"],
                             code))
        /\ WMSet(stopAllWorkers(WM))
        /\ op' = <<"close", NoName, code>>
        /\ Leave
        /\ UNCHANGED <<cryptoVars, fsVars, threadVars>>

\* two units and the transport whose close events stop them
ServerNext ==
    \/ InitWorker(FleetScope)
    \/ StartWorker
    \/ TerminateWorker
    \/ WorkerErrorEvent(FleetScope)
    \/ RecoveryTimeout
    \/ FirstToken
    \/ KeysLoaded
    \/ OnlyConnect
    \/ ReconnectTimeout
    \/ SocketOpen
    \/ AuthenticateDone
    \/ ServerClose(HandshakeScope)

vars == <<wmVars, wsVars, cryptoVars, fsVars, threadVars>>

Init == WMInit /\ WSInit /\ CryptoInit /\ FsInit /\ ThreadInit

\* one configured unit, its whole life cycle
Spec == Init /\ [][WMNext(UnitScope) \/ WorkerSend]_vars

\* two configured units
SpecFleet == Init /\ [][WMNext(FleetScope) \/ WorkerSend]_vars

\* the transport client: handshake, heartbeat and the first reconnects
SpecWS == Init /\ [][WSNext(HandshakeScope)]_vars

\* the transport client: reconnection up to the end of the attempt budget
SpecRetry == Init /\ [][RetryNext]_vars

\* the transport client and its observers
SpecObservers == Init /\ [][ObserverNext]_vars

\* the encryptor: strings sealed and opened again
SpecCrypto == Init /\ [][CryptoNext]_vars

\* the bots directory and Config
SpecConfig == Init /\ [][ConfigNext]_vars

\* the bots directory and the handler of botsInit
SpecBotsInit == Init /\ [][BotsInitNext]_vars

\* the transport client with its encryptor: what it makes of inbound frames
SpecInbound == Init /\ [][InboundNext]_vars

\* one unit whose Send signals go to a transport that comes and goes
SpecRelay == Init /\ [][RelayNext]_vars

\* two units that the close events of the transport stop
SpecServer == Init /\ [][ServerNext]_vars

\* the bots directory and two botsInit messages in a row
SpecOverlap == Init /\ [][OverlapNext]_vars

\* the Worker thread of one unit and the messages it is sent
SpecThread == Init /\ [][ThreadNext]_vars

\* the same, where timers fire and every socket fails sooner or later
SpecRetryFair ==
    /\ SpecRetry
    /\ WF_vars(FirstConnect)
    /\ WF_vars(ReconnectTimeout)
    /\ WF_vars(AuthenticateDone)
    /\ WF_vars(SocketError(RetryScope))
    /\ WF_vars(SocketClose(RetryScope))

\* ------------------------------------------------------------------------
\* Properties of the WorkerManager
\* ------------------------------------------------------------------------
IsOp(o, kind, name) == o[1] = kind /\ o[2] = name
IsSignal(o, name, type) == o[1] = "message" /\ o[2] = name /\ o[3][2] = type
Posts(effs, worker, tag) ==
    \E i \in DOMAIN effs : effs[i] = <<"postMessage", worker, tag>>
Sets(effs) == \E i \in DOMAIN effs : effs[i][1] = "setTimeout"

\* what attemptWorkerRecovery leaves behind for a tracked unit whose counter
\* has just been incremented
RecoveryAttempted(name) ==
    /\ timers' = IF errorCounts'[name] <= maxRetries
                 THEN Append(timers, workers[name]) ELSE timers
    /\ effects' = IF errorCounts'[name] <= maxRetries
                  THEN << <<"setTimeout", workers[name]>> >> ELSE <<>>

ErrorCounted(name) ==
    /\ status'[name] = ERROR
    /\ errorCounts'[name] = ErrCount(WM, name) + 1
    /\ workers' = workers
    /\ RecoveryAttempted(name)

NothingChanged ==
    /\ workers' = workers
    /\ status' = status
    /\ errorCounts' = errorCounts
    /\ timers' = timers
    /\ effects' = <<>>

\* C1 (as claimed): once a tracked unit's error counter has passed
\* maxRetries and its status is Error, no automatic recovery acts on it any
\* more: no recovery timeout sends it Stop or Start or takes it out of Error.
C1_NoRecoveryAfterGivingUp ==
    [][\A n \in Names :
         (workers[n] # NoUnit /\ ErrCount(WM, n) > maxRetries
            /\ status[n] = ERROR /\ op' = <<"recoveryTimeout", n, Live(n)>>)
         => (effects' = <<>> /\ status'[n] = ERROR)]_vars

\* C2 (as claimed): every runtime error of a tracked unit, whether it is an
\* error event or an Error signal, and whatever the status, increments the
\* counter, sets the status to Error and attempts recovery.
C2_EveryErrorCounted ==
    [][\A n \in Names :
         (workers[n] # NoUnit
            /\ (IsOp(op', "errorEvent", n) \/ IsSignal(op', n, ERROR)))
         => ErrorCounted(n)]_vars

\* C2 (amended): an error event of a tracked unit is counted whatever the
\* status; an Error signal is counted only when the status is Running, and
\* otherwise changes nothing.
C2_ErrorCounted ==
    [][\A n \in Names :
         workers[n] # NoUnit =>
           /\ IsOp(op', "errorEvent", n) => ErrorCounted(n)
           /\ IsSignal(op', n, ERROR) =>
                IF status[n] = RUNNING THEN ErrorCounted(n) ELSE NothingChanged]_vars

\* an Error signal of a running unit has been counted as its second error
C2_Witness ==
    \E n \in Names :
        /\ IsSignal(op, n, ERROR)
        /\ status[n] = ERROR
        /\ errorCounts[n] = 2
        /\ effects = << <<"setTimeout", Live(n)>> >>

\* C3 (as claimed): Terminated is absorbing: only re-creating the name
\* changes the status, whatever else is called or arrives, and startWorker,
\* stopWorker and sendTask on the name report failure.
C3_TerminatedAbsorbing ==
    [][\A n \in Names :
         status[n] = TERMINATED =>
           /\ (status'[n] = TERMINATED
                 \/ op'[1] \in {"initWorker", "initWorkers", "restartWorker"})
           /\ (op'[1] \in {"startWorker", "stopWorker", "sendTask"} /\ op'[2] = n)
                 => ret' = "false"]_vars

Distinct(configs) ==
    \A i, j \in DOMAIN configs : i # j => configs[i] # configs[j]

Before(effs, e1, e2) ==
    \E i, j \in DOMAIN effs : i < j /\ effs[i] = e1 /\ effs[j] = e2

Count(effs, e) == Cardinality({i \in DOMAIN effs : effs[i] = e})

\* C4: initWorkers on a list of distinct, non-empty names, every allocation
\* succeeding, leaves exactly those names tracked, Idle, with counter 0; each
\* unit tracked before has been terminated, and each tracked unit is one
\* this call allocated.
C4_InitWorkers ==
    [][(op'[1] = "initWorkers" /\ Distinct(op'[2])
          /\ (\A i \in DOMAIN op'[2] : op'[2][i] # NoName /\ op'[3][i]))
       => /\ {n \in Names : workers'[n] # NoUnit} = ConfigNames(op'[2])
          /\ \A n \in ConfigNames(op'[2]) :
               /\ status'[n] = IDLE
               /\ errorCounts'[n] = 0
               /\ Count(effects', <<"new", n>>) = 1
          /\ \A n \in Names :
               workers[n] # NoUnit =>
                 /\ Count(effects', <<"terminate", Live(n)>>) = 1
                 /\ n \in ConfigNames(op'[2]) =>
                       Before(effects', <<"terminate", Live(n)>>, <<"new", n>>)
          /\ ret' = "void"]_vars

\* initWorkers has replaced a tracked unit and created a second one
C4_Witness ==
    /\ op[1] = "initWorkers"
    /\ Len(op[2]) = 2 /\ Distinct(op[2])
    /\ \A i \in DOMAIN op[2] : op[2][i] # NoName /\ op[3][i]
    /\ \E n \in Names : Count(effects, <<"terminate", Live(n)>>) = 1
    /\ \A n \in Names : status[n] = IDLE /\ workers[n] = Live(n)

\* C5: startWorker succeeds exactly when the name has a handle and is Idle
\* or Error; it then posts Start and sets Running.  Otherwise it returns
\* false, posts nothing and changes nothing.
C5_StartWorker ==
    [][\A n \in Names :
         IsOp(op', "startWorker", n) =>
           IF workers[n] # NoUnit /\ status[n] \in {IDLE, ERROR}
           THEN /\ ret' = "true"
                /\ effects' = << <<"postMessage", workers[n], START>> >>
                /\ status' = [status EXCEPT ![n] = RUNNING]
                /\ workers' = workers /\ errorCounts' = errorCounts
           ELSE ret' = "false" /\ NothingChanged]_vars

\* startWorker has just been refused on a running unit
C5_Witness ==
    \E n \in Names :
        /\ IsOp(op, "startWorker", n)
        /\ ret = "false"
        /\ status[n] = RUNNING
        /\ workers[n] # NoUnit

\* C6: stopWorker succeeds exactly when the name has a handle and is Running
\* or Error; it then posts Stop and sets Idle.  Otherwise it returns false,
\* posts nothing and changes nothing.
C6_StopWorker ==
    [][\A n \in Names :
         IsOp(op', "stopWorker", n) =>
           IF workers[n] # NoUnit /\ status[n] \in {RUNNING, ERROR}
           THEN /\ ret' = "true"
                /\ effects' = << <<"postMessage", workers[n], STOP>> >>
                /\ status' = [status EXCEPT ![n] = IDLE]
                /\ workers' = workers /\ errorCounts' = errorCounts
           ELSE ret' = "false" /\ NothingChanged]_vars

\* stopWorker has just been refused on an idle unit
C6_Witness ==
    \E n \in Names :
        /\ IsOp(op, "stopWorker", n)
        /\ ret = "false"
        /\ status[n] = IDLE
        /\ workers[n] # NoUnit

\* C7 (as claimed): terminateWorker on a name whose status is Idle, Running
\* or Error leaves it Terminated, untracked and without error counter.
C7_TerminateUnconditional ==
    [][\A n \in Names :
         (IsOp(op', "terminateWorker", n) /\ status[n] \in {IDLE, RUNNING, ERROR})
         => /\ status'[n] = TERMINATED
            /\ workers'[n] = NoUnit
            /\ errorCounts'[n] = NoCount]_vars

\* C8: a StartFailed signal of the tracked unit terminates it in that step:
\* Terminated, untracked, counter cleared and not incremented, no timeout
\* set; and no step, a pending recovery timeout included, ever posts Start
\* to a destroyed unit.
C8_StartFailed ==
    [][/\ \A n \in Names :
            (workers[n] # NoUnit /\ IsSignal(op', n, START_FAILED)) =>
              /\ status'[n] = TERMINATED
              /\ workers'[n] = NoUnit
              /\ errorCounts'[n] = NoCount
              /\ ~Sets(effects')
              /\ Len(timers') = Len(timers)
              /\ \A i \in DOMAIN timers' : timers'[i] # Live(n)
              /\ effects' = << <<"terminate", Live(n)>> >>
       /\ \A n \in Names : ~Posts(effects', Dead(n), START)]_vars

\* a StartFailed signal has terminated a unit that had a recovery pending
C8_Witness ==
    \E n \in Names :
        /\ IsSignal(op, n, START_FAILED)
        /\ op[3][1] = Live(n)
        /\ status[n] = TERMINATED
        /\ \E i \in DOMAIN timers : timers[i] = Dead(n)

\* C9: a Result signal sets the unit's error counter to 0 whatever the
\* counter and the status were and changes nothing else; an error event that
\* follows it is counted as the first.
C9_ResultResets ==
    [][\A n \in Names :
         /\ IsSignal(op', n, RESULT) =>
              /\ errorCounts' = [errorCounts EXCEPT ![n] = 0]
              /\ status' = status
              /\ workers' = workers
              /\ timers' = timers
              /\ effects' = <<>>
         /\ (IsSignal(op, n, RESULT) /\ IsOp(op', "errorEvent", n)) =>
              errorCounts'[n] = 1]_vars

\* a Result signal has reset the counter of a unit that is in Error with a
\* recovery pending
C9_Witness ==
    \E n \in Names :
        /\ IsSignal(op, n, RESULT)
        /\ status[n] = ERROR
        /\ errorCounts[n] = 0
        /\ timers # <<>>

\* ------------------------------------------------------------------------
\* Properties of the WebSocketClient
\* ------------------------------------------------------------------------
Invoked(kind, h) == Count(calls, <<"handler", kind, h>>)

\* C10: starting from Disconnected with a token set, connect() followed by
\* socket open and one welcome frame goes through exactly Connecting,
\* Authenticating, Authenticated; at the end the assigned client id is
\* stored, exactly one heartbeat timer is active and every registered
\* connect observer has been invoked exactly once.
C10_Handshake ==
    /\ handshake = 1 => state = CONNECTING
    /\ handshake \in {2, 3} => state = AUTHENTICATING
    /\ handshake = 4 =>
        /\ state = AUTHENTICATED
        /\ clientId = "abc"
        /\ Heartbeats(WS) = 1
        /\ \A i \in DOMAIN connectionHandlers :
               Invoked("connect", connectionHandlers[i]) = 1

\* C11: timer ownership. In every reachable state at most one heartbeat
\* timer and at most one reconnect timer exist, a heartbeat timer is active
\* only while the state is Authenticated, and a reconnect timer is pending
\* only while the state is Reconnecting.
C11_TimerOwnership ==
    /\ Heartbeats(WS) <= 1
    /\ Heartbeats(WS) > 0 => state = AUTHENTICATED
    /\ reconnectTimeout = "pending" => state = RECONNECTING

ConnectRejected ==
    /\ calls' = << <<"return", FALSE>> >>
    /\ UNCHANGED <<state, socket, sockPhase, reconnectAttempts,
                   reconnectTimeout, pingInterval, leaked>>

ConnectOpened ==
    /\ state' = CONNECTING
    /\ socket' # NoSocket
    /\ sockPhase[socket'] = "gone"
    /\ sockPhase' = [sockPhase EXCEPT ![socket'] = "connecting"]
    /\ calls' = << <<"new WebSocket", socket'>>, <<"return", TRUE>> >>

ConnectThrew ==
    /\ state' = ERROR
    /\ UNCHANGED <<socket, sockPhase, reconnectAttempts, reconnectTimeout>>
    /\ Count(calls', <<"invoke", "error">>) = 1
    /\ calls'[Len(calls')] = <<"return", FALSE>>

MustReject ==
    state \in {CONNECTED, CONNECTING, AUTHENTICATING} \/ authToken = NoToken

\* C12 as stated: connect() is rejected when the state is Connected,
\* Connecting or Authenticating or when no token has been set (it returns
\* false, creates no socket and leaves state, attempt counter and timers
\* unchanged); in every other case it moves to Connecting and opens a socket.
C12_ConnectAlwaysOpens ==
    [][Connect => IF MustReject THEN ConnectRejected ELSE ConnectOpened]_vars

\* C12, amended: as stated, except that in the other cases connect() either
\* moves to Connecting and opens a socket, returning true, or, when creating
\* the socket throws, moves to Error, invokes the error observers and
\* returns false, with no socket created and the timers untouched.
C12_Connect ==
    [][Connect => IF MustReject
                  THEN ConnectRejected
                  ELSE ConnectOpened \/ ConnectThrew]_vars

\* connect() has just been refused in a state that does not allow it
C12_Witness ==
    /\ calls = << <<"return", FALSE>> >>
    /\ authToken # NoToken
    /\ state = AUTHENTICATING

\* C13: disconnect(reason) called in Disconnected changes nothing; called in
\* any other state it cancels the heartbeat timer and any pending reconnect
\* timer, closes the socket with code 1000, drops the socket reference and
\* leaves the state Disconnected, so that a reconnect pending at the call
\* never calls connect().
C13_Disconnect ==
    [][Disconnect =>
        IF state = DISCONNECTED
        THEN /\ calls' = <<>>
             /\ UNCHANGED <<state, socket, sockPhase, clientId,
                            reconnectAttempts, reconnectTimeout,
                            pingInterval, leaked, pending>>
        ELSE /\ state' = DISCONNECTED
             /\ socket' = NoSocket
             /\ socket # NoSocket =>
                    Count(calls', <<"close", socket, NORMAL_CLOSURE>>) = 1
             /\ reconnectTimeout' # "pending"
             /\ ~pingInterval' /\ leaked' = 0]_vars

\* the last step handled a close event with this code
Closed(code) == Count(calls', <<"invoke", "close", code>>) = 1

\* setTimeout calls of the last step
Scheduled == {i \in DOMAIN calls' : calls'[i][1] = "setTimeout"}

\* the last step scheduled exactly one reconnect, by the backoff rule for
\* attempt n
ScheduledFor(n) ==
    /\ Cardinality(Scheduled) = 1
    /\ \A i \in Scheduled :
           /\ calls'[i][2] >= Min(1000 * 2^n, 30000)
           /\ calls'[i][2] <= Min(1000 * 2^n + 1000, 30000)
    /\ reconnectTimeout' = "pending"

\* C14: a close event with code 1000 or 4000 never schedules a reconnect
\* (afterwards the state is Disconnected and no reconnect timer is pending);
\* a close event with any other code moves the client to Reconnecting and
\* schedules a reconnect by the backoff rule, unless the attempt budget is
\* exhausted.
C14_CloseCodes ==
    [][\A code \in CloseCodes :
        Closed(code) =>
            IF code \in {NORMAL_CLOSURE, AUTH_ERROR}
            THEN /\ state' = DISCONNECTED
                 /\ reconnectTimeout' # "pending"
                 /\ Scheduled = {}
                 /\ reconnectAttempts' = reconnectAttempts
            ELSE reconnectAttempts < maxReconnectAttempts =>
                     /\ state' = RECONNECTING
                     /\ ScheduledFor(reconnectAttempts + 1)]_vars

\* the server has refused the token: close 4000 while Authenticating
C14_Witness ==
    /\ Count(calls, <<"invoke", "close", AUTH_ERROR>>) = 1
    /\ state = DISCONNECTED
    /\ reconnectAttempts = 0
    /\ reconnectTimeout = "null"

\* the last step handled a transport error (the catch branch of connect()
\* invokes the error observers too, and returns)
Errored ==
    /\ Count(calls', <<"invoke", "error">>) = 1
    /\ Count(calls', <<"return", FALSE>>) = 0

\* the last step handled a close event with a code that is not final
ClosedAbnormally ==
    \E code \in CloseCodes \ {NORMAL_CLOSURE, AUTH_ERROR} : Closed(code)

\* C15: each handled non-intentional close or transport error moves the
\* client to Reconnecting and increments the attempt counter by one; while
\* the incremented counter is at most 10 exactly one reconnect timer is
\* scheduled (a pending one is cancelled first), and from 11 on no timer is
\* scheduled and the client settles in Disconnected with no timer pending.
C15_ReconnectPolicy ==
    [][(Errored \/ ClosedAbnormally) =>
        /\ reconnectAttempts' = reconnectAttempts + 1
        /\ reconnectTimeout = "pending" => Count(calls', <<"clearTimeout">>) = 1
        /\ IF reconnectAttempts' <= maxReconnectAttempts
           THEN /\ state' = RECONNECTING
                /\ ScheduledFor(reconnectAttempts')
           ELSE /\ state' = DISCONNECTED
                /\ Scheduled = {}
                /\ reconnectTimeout' = "null"]_vars

\* the eleventh failure in a row has just been handled
C15_Witness ==
    /\ reconnectAttempts = maxReconnectAttempts + 1
    /\ Count(calls, <<"invoke", "close", INTERNAL_ERROR>>) = 1
    /\ state = DISCONNECTED
    /\ reconnectTimeout = "null"

\* C16: for every attempt number n in 1..10 and every jitter, the scheduled
\* reconnect delay lies in [2^n*1000, 2^n*1000 + 1000] while that interval
\* is below the cap of 30000 ms and is exactly 30000 ms from the first n
\* whose base 2^n*1000 exceeds the cap; it never exceeds 30000 ms and is
\* never below 2000 ms.
C16_BackoffDelay ==
    [][\A i \in Scheduled :
        LET n == reconnectAttempts'
            d == calls'[i][2]
        IN  /\ n \in 1..maxReconnectAttempts
            /\ 2^n * 1000 + 1000 <= 30000 =>
                   d >= 2^n * 1000 /\ d <= 2^n * 1000 + 1000
            /\ 2^n * 1000 > 30000 => d = 30000
            /\ d <= 30000
            /\ d >= 2000]_vars

\* the fifth attempt, the first one at the cap, has been scheduled
C16_Witness ==
    /\ reconnectAttempts = 5
    /\ Count(calls, <<"setTimeout", 30000>>) = 1
    /\ reconnectTimeout = "pending"

\* C17: at every heartbeat tick while Authenticated, if more than 120 s
\* have passed since the last inbound frame the client initiates a
\* reconnect and sends no ping at that tick; otherwise it sends exactly one
\* ping frame and stays Authenticated.
C17_HeartbeatTick ==
    [][(PingTick(HandshakeScope) /\ state = AUTHENTICATED) =>
        IF Silences[silence] > pingTimeoutMs
        THEN /\ state' = RECONNECTING
             /\ reconnectAttempts' = reconnectAttempts + 1
             /\ reconnectTimeout' = "pending"
             /\ pending' = pending
        ELSE /\ state' = AUTHENTICATED
             /\ pending' = [pending EXCEPT !["ping"] = @ + 1]
             /\ UNCHANGED <<reconnectAttempts, reconnectTimeout>>]_vars

\* C18: if every connection attempt fails before authentication completes
\* and the user makes no further calls, the client does not retry forever:
\* it eventually reaches Disconnected with no timer pending and remains
\* there (it never comes to rest in Reconnecting, Connecting or Error).
C18_RetriesEnd ==
    <>[](state = DISCONNECTED /\ reconnectTimeout # "pending")

\* the handlers of a kind that the last step called, in the order of the
\* calls
Invocations(kind) ==
    LET hs == SelectSeq(calls', LAMBDA c : c[1] = "handler" /\ c[2] = kind)
    IN  [i \in DOMAIN hs |-> hs[i][3]]

\* the last step dispatched an event to the observers of a kind
Triggered(kind) ==
    CASE kind = "message" -> Count(calls', <<"invoke", "message">>) = 1
      [] kind = "connect" -> Count(calls', <<"setInterval">>) = 1
      [] kind = "error" -> Count(calls', <<"invoke", "error">>) = 1
      [] kind = "close" -> \E code \in CloseCodes : Closed(code)

\* an observer threw in the last step
Caught == \E i \in DOMAIN calls' : calls'[i][1] = "caught"

\* C19: observers of each kind are invoked in the order they were
\* registered, each exactly once per event, and an exception thrown by one
\* observer neither keeps a later-registered observer from being invoked
\* for the same event nor changes the connection state the event leads to.
C19_Observers ==
    [][/\ \A kind \in HandlerKinds :
              Invocations(kind) =
                  IF Triggered(kind) THEN HandlersOf(WS, kind) ELSE <<>>
       /\ Caught =>
              /\ Triggered("message") => state' = state
              /\ Triggered("connect") => state' = AUTHENTICATED
              /\ Errored => state' = RECONNECTING
              /\ ClosedAbnormally => state' = RECONNECTING
              /\ (Closed(NORMAL_CLOSURE) \/ Closed(AUTH_ERROR)) =>
                     state' = DISCONNECTED]_vars

\* the first of two close observers has thrown and the second has been
\* invoked after it
C19_Witness ==
    /\ closeHandlers = << <<1, TRUE>>, <<2, FALSE>> >>
    /\ Count(calls, <<"caught", "close", <<1, TRUE>> >>) = 1
    /\ Invoked("close", <<2, FALSE>>) = 1

\* ------------------------------------------------------------------------
\* Properties of the ClientMessageEncryptor

\* the encryptor has the two keys of one pair
Matching ==
    /\ encryptor.algorithm = "RSA"
    /\ encryptor.serverPublicKey # NoKey
    /\ encryptor.serverPublicKey = encryptor.clientPrivateKey

\* the envelope has its three members, none of them empty
Envelope(t) ==
    /\ Names3(t)
    /\ parse(t).k # <<>>
    /\ parse(t).i # <<>>
    /\ parse(t).d # <<>>

HasMark(s) == s # <<>> /\ s[1] = 65279

\* no surrogate without its partner
RECURSIVE WellFormed(_)
WellFormed(s) ==
    IF s = <<>> THEN TRUE
    ELSE IF Len(s) >= 2 /\ IsHigh(s[1]) /\ IsLow(s[2])
    THEN WellFormed(SubSeq(s, 3, Len(s)))
    ELSE ~IsHigh(s[1]) /\ ~IsLow(s[1]) /\ WellFormed(Tail(s))

\* C20 as stated: with a matching key pair loaded, the envelope of every
\* plaintext has the members k, i and d, and opening it returns the bytes
\* that were sealed.
C20_RoundTripEvery ==
    (Matching /\ plain # NoText) =>
        /\ Envelope(sealed)
        /\ opened # NoText => opened # Failure /\ encode(opened) = encode(plain)

\* C20: with a matching key pair loaded, the envelope of every plaintext
\* has the members k, i and d, and opening it succeeds; it returns the bytes
\* that were sealed (and the very string, when no surrogate in it stands
\* alone) unless the plaintext begins with U+FEFF, and then it returns the
\* plaintext without that first code unit.
C20_RoundTrip ==
    (Matching /\ plain # NoText) =>
        /\ Envelope(sealed)
        /\ opened # NoText =>
              /\ opened # Failure
              /\ ~HasMark(plain) => encode(opened) = encode(plain)
              /\ (~HasMark(plain) /\ WellFormed(plain)) => opened = plain
              /\ HasMark(plain) => encode(opened) = encode(Tail(plain))

\* the empty string sealed and opened with a matching key pair
C20_Witness ==
    /\ Matching
    /\ plain = <<>>
    /\ Envelope(sealed)
    /\ opened = <<>>

\* ------------------------------------------------------------------------
\* Properties of the client's handling of inbound frames

\* the step is handleMessage for a frame
Received == calls' # <<>> /\ calls'[1][1] = "received"

\* a JSON object in which one of k, i and d is missing
Incomplete(t) ==
    /\ IsObject(t)
    /\ \E name \in {K, I, D} : \A n \in DOMAIN t : t[n] # name

\* what a frame may not touch when nothing comes of it
Connection ==
    <<state, socket, sockPhase, authToken, clientId, reconnectAttempts,
      reconnectTimeout, pingInterval, leaked, keysLoaded, pending,
      connectionHandlers, messageHandlers, errorHandlers, closeHandlers>>

\* C21: decrypt of a frame in which k, i or d is missing throws at the
\* check of the members, before the key is unwrapped or anything is
\* decrypted, and returns no plaintext; the client that received the frame
\* is left as it was, with no continuation waiting and no observer called,
\* and the frame after it is taken up as usual (a welcome while
\* Authenticating, a message while Authenticated).
C21_MissingField ==
    [][Received =>
        /\ Incomplete(inbound') =>
              /\ answer'.value = Failure
              /\ answer'.calls = <<"JSON.parse">>
              /\ calls' = << <<"received", "garbage">> >>
              /\ UNCHANGED Connection
        /\ (Incomplete(inbound) /\ state = AUTHENTICATING
            /\ inbound' = Sealed(Json("welcome"))) =>
              pending' = [pending EXCEPT !["welcome"] = @ + 1]
        /\ (Incomplete(inbound) /\ state = AUTHENTICATED
            /\ inbound' = Sealed(Json("botsInit"))) =>
              pending' = [pending EXCEPT !["dataMessage"] = @ + 1]]_vars

\* a frame without its member i has been refused while Authenticated
C21_Witness ==
    /\ state = AUTHENTICATED
    /\ inbound = Without(ServerFrame, I)
    /\ answer.value = Failure
    /\ calls = << <<"received", "garbage">> >>

\* initializeRsaKeys has run to its end, one way or the other
Initialised == encryptor.keyManager \/ encryptor.rejected

\* C22: with algorithm RSA, encrypt throws whenever the server public key is
\* not loaded and decrypt throws, before it looks at the frame, whenever the
\* client private key is not loaded, also before the initialisation is
\* over; and once it is over, each key whose file is there is loaded,
\* whatever became of the other.
C22_KeysRequired ==
    encryptor.algorithm = "RSA" =>
        /\ (plain # NoText /\ encryptor.serverPublicKey = NoKey) =>
              sealed = Failure
        /\ (inbound # NoText /\ encryptor.clientPrivateKey = NoKey) =>
              answer = Answer(Failure, <<>>)
        /\ (Initialised /\ encryptor.serverPublicKeyPath \in KeyPairs) =>
              encryptor.serverPublicKey = encryptor.serverPublicKeyPath
        /\ (Initialised /\ encryptor.clientPrivateKeyPath \in KeyPairs) =>
              encryptor.clientPrivateKey = encryptor.clientPrivateKeyPath

\* ------------------------------------------------------------------------
\* Properties of the bots directory
\* ------------------------------------------------------------------------

\* the names of the items of a payload that have one
Named(list) == {list[i] : i \in DOMAIN list} \ {"", "null"}

\* a call of handleBotsInit returns in this step
Returns(j) == jobs[j].pc # "returned" /\ jobs'[j].pc = "returned"

\* C23: when the handler of botsInit has processed a payload list, the files
\* of the bots directory are exactly one file per named item of the list,
\* whatever was there before and whatever items without a name the list
\* holds; a payload that is no list changes nothing.
C23_ExactlyTheNamed ==
    [][\A j \in JobIds :
          Returns(j) =>
              IF jobs'[j].bots = NotAList THEN botFiles' = botFiles
              ELSE Entries(botFiles') =
                       {<<n, "json">> : n \in Named(jobs'[j].bots)}]_vars

\* a file Config takes for a bot file, and one of them that parses
IsBotFile(f) == f \in Entries(botFiles) /\ f[2] \in {"json", "jsonc"}
IsValid(f) == IsBotFile(f) /\ botFiles[f].kind = "json"

\* C24: after a reload every valid bot file of the directory has an entry
\* under its base name whose name is that base name, and a file that does
\* not parse adds or changes no entry.
C24_ReloadLoadsEvery ==
    [][Reload =>
          /\ \A f \in FileNames :
                 IsValid(f) => bots'[f[1]] = [loaded |-> TRUE, name |-> f[1]]
          /\ \A n \in BotNames :
                 (\A f \in FileNames : IsBotFile(f) /\ f[1] = n => ~IsValid(f))
                     => bots'[n] = bots[n]]_vars

\* ------------------------------------------------------------------------
\* Properties of the recovery of units
\* ------------------------------------------------------------------------

\* a recovery timeout of the name fires in this step
Fires(name) == op'[1] = "recoveryTimeout" /\ op'[2] = name

\* C25: a recovery timeout that fires when the status of its unit is not
\* Error posts nothing to any unit and changes no status, no error counter
\* and no handle.
C25_LateTimeoutIdle ==
    [][\A name \in Names :
          Fires(name) /\ status[name] # ERROR =>
              /\ effects' = <<>>
              /\ status' = status
              /\ errorCounts' = errorCounts
              /\ workers' = workers]_vars

\* a timeout has fired on a unit that was stopped by hand in the meantime
C25_Witness ==
    /\ op[1] = "recoveryTimeout"
    /\ status[op[2]] = IDLE
    /\ errorCounts[op[2]] > 0
    /\ effects = <<>>

\* a runtime error of the name is counted in this step
Counted(name) ==
    /\ op'[1] \in {"errorEvent", "message"}
    /\ op'[2] = name
    /\ errorCounts'[name] = ErrCount(WM, name) + 1

\* C26: every runtime error that leaves the counter of its unit at 3 or less
\* schedules one recovery for that unit, and a recovery that fires while the
\* status is Error posts Stop and then Start to the unit, makes it Running
\* and leaves the counters alone.
C26_RecoveryRestarts ==
    [][\A name \in Names :
          /\ Counted(name) /\ errorCounts'[name] <= maxRetries =>
                 timers' = Append(timers, Live(name))
          /\ Fires(name) /\ status[name] = ERROR =>
                 /\ effects' = << <<"postMessage", Live(name), STOP>>,
                                  <<"postMessage", Live(name), START>> >>
                 /\ status'[name] = RUNNING
                 /\ errorCounts' = errorCounts]_vars

\* ------------------------------------------------------------------------
\* Properties of the creation of units
\* ------------------------------------------------------------------------

\* the last config of the list that carries the name
LastOf(configs, name) ==
    CHOOSE i \in DOMAIN configs :
        /\ configs[i] = name
        /\ \A j \in DOMAIN configs : configs[j] = name => j <= i

\* what a config whose allocation failed, or succeeded, leaves of its name
Created(name, allocOk) ==
    /\ errorCounts'[name] = 0
    /\ IF allocOk
       THEN workers'[name] = Live(name) /\ status'[name] = IDLE
       ELSE workers'[name] = NoUnit /\ status'[name] = ERROR

\* C27: a config whose unit cannot be allocated leaves its name in status
\* Error without a handle, with the counter at the 0 the initialisation set
\* and with no recovery scheduled; initWorker and initWorkers return as
\* usual, and every other config of the list is initialised as if the
\* failure had not happened.
C27_AllocationFails ==
    [][/\ op'[1] = "initWorker" /\ op'[2] # NoName =>
              /\ Created(op'[2], op'[3])
              /\ ret' = "true"
              /\ \A i \in DOMAIN effects' : effects'[i][1] # "setTimeout"
       /\ op'[1] = "initWorkers" =>
              /\ \A name \in ConfigNames(op'[2]) :
                     Created(name, op'[3][LastOf(op'[2], name)])
              /\ ret' = "void"
              /\ Len(timers') = Len(timers)
              /\ \A i \in DOMAIN effects' : effects'[i][1] # "setTimeout"]_vars

\* initWorkers has gone through a list whose first unit could not be
\* allocated and whose second could
C27_Witness ==
    /\ op = <<"initWorkers", <<"a", "b">>, <<FALSE, TRUE>> >>
    /\ status = [a |-> ERROR, b |-> IDLE]
    /\ workers = [a |-> NoUnit, b |-> Live("b")]
    /\ errorCounts["a"] = 0

\* ------------------------------------------------------------------------
\* Properties of the relay
\* ------------------------------------------------------------------------

\* C28: a Send signal of a unit makes one call of sendBotMessage with the
\* name of the unit and nothing else, and leaves every status, every error
\* counter and the handles as they were, whatever the state of the unit and
\* of the transport.
C28_SendOnlyForwards ==
    [][\A name \in Names :
          IsSignal(op', name, SEND) =>
              /\ \E i \in DOMAIN effects' : effects'[i] = <<"sendBotMessage", name>>
              /\ \A i \in DOMAIN effects' :
                     effects'[i][1] = "sendBotMessage" => i = 1
              /\ status' = status
              /\ errorCounts' = errorCounts
              /\ workers' = workers]_vars

\* ------------------------------------------------------------------------
\* Properties of the frames the client receives
\* ------------------------------------------------------------------------

\* the type of the frame received in this step, as the handlers will see it
Frame == calls'[1][2]

\* a continuation of the kind is started, or resumed, in this step
Started(kind) == pending' = [pending EXCEPT ![kind] = @ + 1]
Resumed(kind) == pending'[kind] < pending[kind]

\* calls of observers, and of setInterval, that this step made
Observed == \E i \in DOMAIN calls' : calls'[i][1] \in {"handler", "invoke"}
Ticking == \E i \in DOMAIN calls' : calls'[i] = <<"setInterval">>

\* C29: the state becomes Authenticated only in the continuation of a
\* welcome frame, and such a continuation exists only for a frame of type
\* welcome received while Authenticating; every other frame received while
\* Authenticating, and every frame that cannot be decrypted or parsed,
\* leaves the state and the rest of the connection as they were, starts no
\* heartbeat, calls no observer and leaves no continuation behind.
C29_OnlyWelcome ==
    [][/\ (state # AUTHENTICATED /\ state' = AUTHENTICATED) => Resumed("welcome")
       /\ pending'["welcome"] > pending["welcome"] =>
              /\ Received
              /\ Frame = "welcome"
              /\ TypeOf(answer'.value) = "welcome"
              /\ state = AUTHENTICATING
       /\ (Received /\ Frame # "welcome" /\ state = AUTHENTICATING) =>
              /\ UNCHANGED Connection
              /\ ~Observed /\ ~Ticking
       /\ (Received /\ Frame = "garbage") =>
              /\ UNCHANGED Connection
              /\ ~Observed /\ ~Ticking]_vars

\* a ping has arrived while Authenticating and nothing has come of it
C29_Witness ==
    /\ state = AUTHENTICATING
    /\ inbound = Sealed(Json("ping"))
    /\ calls = << <<"received", "ping">> >>
    /\ InFlight(WS) = 0
    /\ ~pingInterval

\* the pong frames this step handed to the socket
Pongs ==
    Len(SelectSeq(calls', LAMBDA c : c[1] = "send" /\ c[3] = "pong"))

\* what the claim of C30 says of the frames that are no ping
OtherFrames ==
    /\ (Received /\ state = AUTHENTICATED /\ Frame = "ping") =>
           Started("dataPing") /\ ~Observed
    /\ (Received /\ state = AUTHENTICATED /\ Frame = "pong") =>
           /\ UNCHANGED Connection
           /\ calls' = << <<"received", "pong">> >>
    /\ (Received /\ state = AUTHENTICATED
        /\ Frame \in Types \ {"ping", "pong"}) =>
           Started("dataMessage")
    /\ Resumed("dataMessage") =>
           /\ Invocations("message") = messageHandlers
           /\ Pongs = 0
    /\ (Received /\ state \notin {AUTHENTICATING, AUTHENTICATED}) =>
           /\ UNCHANGED Connection
           /\ ~Observed
    /\ Pongs > 0 => Resumed("pong")
    /\ pending'["pong"] > pending["pong"] => Resumed("dataPing")

\* C30 as it is worded: the ping received while Authenticated gets its pong
\* whatever happens to the connection while the frame is decrypted and the
\* pong encrypted.
C30_EveryPingAnswered ==
    [][/\ OtherFrames
       /\ Resumed("dataPing") =>
              pending'["pong"] = pending["pong"] + 1 /\ ~Observed
       /\ Resumed("pong") => Pongs = 1 /\ ~Observed]_vars

\* C30: while Authenticated a ping is answered by exactly one pong and is
\* not shown to the observers, provided the client still has its socket
\* when the ping has been decrypted and the socket is still open when the
\* pong has been encrypted; otherwise no pong is sent. A pong is consumed
\* without reply or observer call, a frame of any other type is delivered
\* once to every message observer in turn, and a frame received in a state
\* other than Authenticating or Authenticated comes to nothing.
C30_PingAnswered ==
    [][/\ OtherFrames
       /\ Resumed("dataPing") =>
              /\ ~Observed
              /\ Pongs = 0
              /\ IF socket # NoSocket
                 THEN pending' = [pending EXCEPT !["dataPing"] = @ - 1,
                                                 !["pong"] = @ + 1]
                 ELSE pending'["pong"] = pending["pong"]
       /\ Resumed("pong") =>
              /\ ~Observed
              /\ Pongs = IF socket # NoSocket /\ sockPhase[socket] = "open"
                         THEN 1 ELSE 0]_vars

\* the pong of a ping has been handed to the open socket
C30_Witness ==
    /\ state = AUTHENTICATED
    /\ calls = << <<"send", socket, "pong">> >>
    /\ InFlight(WS) = 0

\* ------------------------------------------------------------------------
\* Properties of the sockets of the client
\* ------------------------------------------------------------------------

\* the open event of a socket is handled in this step
Opens(x) == sockPhase[x] = "connecting" /\ sockPhase'[x] \in {"open", "closing"}

\* the auth frames this step handed to a socket
Auths ==
    Len(SelectSeq(calls', LAMBDA c : c[1] = "send" /\ c[3] = "auth"))

\* no reconnect was begun in this step
NoRetry ==
    /\ state' # RECONNECTING
    /\ reconnectTimeout' # "pending"
    /\ reconnectAttempts' <= reconnectAttempts

\* the socket of the client has ended, and discards what is written to it
Dropped ==
    /\ socket # NoSocket
    /\ sockPhase[socket] \in {"closing", "errored", "gone"}

\* C31: the open event of a socket makes the state Authenticating, sets the
\* attempt counter to 0 and starts the sending of one auth frame, which is
\* then handed to the socket once; when the frame cannot be sent the client
\* ends Disconnected and begins no reconnect.
C31_OpenAuthenticates ==
    [][/\ \A x \in SockIds :
              Opens(x) =>
                  /\ reconnectAttempts' = 0
                  /\ \/ /\ state' = AUTHENTICATING
                        /\ pending' = [pending EXCEPT !["auth"] = @ + 1]
                     \/ /\ state' = DISCONNECTED
                        /\ pending' = pending
                        /\ NoRetry
       /\ Resumed("auth") =>
              \/ Auths = 1 /\ state' = state
              \/ Auths = 0 /\ state' = DISCONNECTED /\ NoRetry
              \/ Auths = 0 /\ state' = state /\ Dropped]_vars

\* ------------------------------------------------------------------------
\* Properties of the server's close observer
\* ------------------------------------------------------------------------

\* this step is a close event of the transport with code
CloseEvent(code) ==
    /\ op' = <<"close", NoName, code>>
    /\ Count(calls', <<"invoke", "close", code>>) = 1

\* C32: on a close event of the transport, whatever its code, every unit
\* that has a handle and is Running or Error is posted Stop once and becomes
\* Idle, no other unit is posted anything or changes, and afterwards no unit
\* with a handle is Running; handles and error counters stay as they were.
C32_CloseStopsUnits ==
    [][\A code \in CloseCodes :
          CloseEvent(code) =>
              /\ \A name \in Names :
                    IF workers[name] # NoUnit /\ status[name] \in {RUNNING, ERROR}
                    THEN /\ Count(effects', <<"postMessage", workers[name], STOP>>) = 1
                         /\ status'[name] = IDLE
                    ELSE /\ status'[name] = status[name]
                         /\ \A i \in DOMAIN effects' : effects'[i][2][1] # name
              /\ \A name \in Names :
                    workers'[name] # NoUnit => status'[name] # RUNNING
              /\ Len(effects') =
                    Cardinality({n \in Names : /\ workers[n] # NoUnit
                                               /\ status[n] \in {RUNNING, ERROR}})
              /\ UNCHANGED <<workers, errorCounts, timers, destroyed>>]_vars

\* a close event has stopped a Running unit and a unit in status Error whose
\* counter is still 1
C32_Witness ==
    /\ op[1] = "close"
    /\ op[3] = AUTH_ERROR
    /\ effects = <<<<"postMessage", Live("a"), STOP>>,
                   <<"postMessage", Live("b"), STOP>>>>
       \/ effects = <<<<"postMessage", Live("b"), STOP>>,
                      <<"postMessage", Live("a"), STOP>>>>
    /\ status = [n \in Names |-> IDLE]
    /\ \E n \in Names : errorCounts[n] = 1
    /\ \E n \in Names : errorCounts[n] = 0

\* ------------------------------------------------------------------------
\* Properties of disconnect() and of the sockets connect() leaves behind
\* ------------------------------------------------------------------------

\* what disconnect() leaves, and what a client that was never connected has
Disconnected ==
    /\ state = DISCONNECTED
    /\ socket = NoSocket
    /\ reconnectTimeout # "pending"
    /\ ~pingInterval

\* this step is a call of connect()
ConnectCalled == \E i \in DOMAIN calls' : calls'[i][1] = "return"

\* this step created a socket
SocketCreated == \E i \in DOMAIN calls' : calls'[i][1] = "new WebSocket"

\* C33: from disconnect() to the next call of connect() the state is
\* Disconnected, no socket is created and no timer is started, whatever
\* continuation of an earlier frame or event of a closed socket arrives.
C33_DisconnectedStays ==
    [][Disconnected /\ ~ConnectCalled =>
          /\ Disconnected'
          /\ ~SocketCreated]_vars

\* a socket that connect() created and nobody closed: it is connecting or
\* open
LiveSocks == {x \in SockIds : sockPhase[x] \in {"connecting", "open"}}

\* an open, error or close event of a socket that is not the client's
SupersededEvent ==
    \E x \in SockIds :
        /\ sockPhase'[x] # sockPhase[x]
        /\ socket # NoSocket
        /\ x # socket
        /\ ~SocketCreated

\* C34: connect() creates a socket only when no socket created earlier is
\* still connecting or open, so at most one socket is live, and an event of
\* a socket that has been superseded changes neither the state nor the
\* attempt counter nor the timers.
C34_OneLiveSocket ==
    [][/\ SocketCreated => LiveSocks = {}
       /\ Cardinality(LiveSocks') <= 1
       /\ SupersededEvent =>
              UNCHANGED <<state, reconnectAttempts, reconnectTimeout,
                          pingInterval>>]_vars

\* the close event of a socket that has reported an error before
ClosesAfterError ==
    \E x \in SockIds : sockPhase[x] = "errored" /\ sockPhase'[x] = "gone"

\* C35: the error event of a socket and the close event that follows it
\* count as one failed attempt: the error event has incremented the attempt
\* counter, and the close event with a non-terminal code leaves it there.
C35_PairCountsOnce ==
    [][ClosesAfterError /\ ClosedAbnormally =>
          reconnectAttempts' = reconnectAttempts]_vars

\* ------------------------------------------------------------------------
\* Properties of recovery timers and of the supervisor's maps
\* ------------------------------------------------------------------------

\* the recovery timeout that fires in this step was scheduled for a unit of
\* name that has been terminated since
FiresStale(name) == Fires(name) /\ op'[3] = Dead(name)

\* C36: the recovery timeout of a terminated unit has no effect, also when
\* its name has been created again and the new unit is in status Error: it
\* posts nothing and changes no status, no counter and no handle.
C36_StaleTimerIdle ==
    [][\A name \in Names :
          FiresStale(name) =>
              /\ effects' = <<>>
              /\ UNCHANGED <<workers, status, errorCounts, destroyed>>]_vars

\* C37: a name in status Idle or Running has a handle in the active set, and
\* a name in status Terminated has none.
C37_StatusMatchesHandles ==
    \A name \in Names :
        /\ status[name] \in {IDLE, RUNNING} => workers[name] # NoUnit
        /\ status[name] = TERMINATED => workers[name] = NoUnit

\* ------------------------------------------------------------------------
\* Properties of the Worker thread
\* ------------------------------------------------------------------------

\* C38: at most one agent loop of a unit is active at any time, whatever
\* Start and Stop messages the unit is sent and however their handling
\* interleaves with the awaits of the loop.
C38_OneLoop == loops <= 1

\* ------------------------------------------------------------------------
\* Properties of botsInit messages that follow each other
\* ------------------------------------------------------------------------

\* the handlers of both messages have returned
BothReturned == jobs[1].pc = "returned" /\ jobs[Later].pc = "returned"

\* C39: two botsInit messages with lists L1 and then L2 leave, once both
\* handlers have returned, exactly one file per named item of L2 in the bots
\* directory, also when the second arrives while the first is handled.
C39_LastPushWins ==
    BothReturned =>
        Entries(botFiles) = {<<n, "json">> : n \in Named(jobs[Later].bots)}

\* ------------------------------------------------------------------------
\* Properties of the connection state
\* ------------------------------------------------------------------------

\* C40: the state is always one of Disconnected, Connecting, Authenticating,
\* Authenticated, Reconnecting and Error; the declared value Connected, for
\* which connect() tests, is never the state.
C40_NeverConnected ==
    /\ state \in {DISCONNECTED, CONNECTING, AUTHENTICATING, AUTHENTICATED,
                  RECONNECTING, ERROR}
    /\ state # CONNECTED

\* connect() has been refused while the socket is open: the state it found
\* is Authenticating
C40_Witness ==
    /\ socket # NoSocket
    /\ sockPhase[socket] = "open"
    /\ calls = << <<"return", FALSE>> >>
    /\ state = AUTHENTICATING

============================================================================
